---------------------------- MODULE Spec2Model ----------------------------
(***************************************************************************)
(* Model of the music API: four collections (artists, albums, songs,      *)
(* playlists) in a document store, the route handlers that write them,    *)
(* and the authentication gate (requireAuth / demo mode) in front of the  *)
(* write handlers.                                                         *)
(*                                                                         *)
(* Text values are sequences of one-character strings, so that trim(),    *)
(* the case-insensitive comparison and the RegExp built from a name are   *)
(* computed as the code computes them.  An identifier string is a record  *)
(* [k, n, up]: k = "hex" is a 24-digit hexadecimal string that denotes    *)
(* the ObjectId n, written with lower-case (up = FALSE) or upper-case     *)
(* (up = TRUE) digits; k = "bad" is a string that is no ObjectId; k =     *)
(* "undef" is an absent field.  ObjectId.isValid accepts both spellings   *)
(* of a hex string, new ObjectId(s) maps both to the same ObjectId, and   *)
(* ObjectId.toString() always yields the lower-case spelling.             *)
(***************************************************************************)
EXTENDS Integers, Sequences, FiniteSets, TLC

\* removed is a history variable: the DELETE /{collection}/:id requests that
\* have removed a document; no handler reads it.
VARIABLES artists, albums, songs, playlists, isDemoMode, nextId, removed

\* The process around the handlers: NODE_ENV is process.env.NODE_ENV; _db is
\* TRUE when db/conn.js holds the store handle; phase is "starting" until
\* the initDb callback ran, then "listening" or "exited"; handled counts the
\* requests a handler was run for (a history variable); reqs holds the
\* requests in flight, each with the place it has reached in its handler and
\* what it has read so far.
VARIABLES NODE_ENV, _db, phase, handled, reqs

process == <<NODE_ENV, _db, phase, handled, reqs>>

vars == <<artists, albums, songs, playlists, isDemoMode, nextId, removed, process>>

store == <<artists, albums, songs, playlists>>

(***************************************************************************)
(* Bounds of the model.                                                    *)
(***************************************************************************)
\* ObjectIds the driver may generate in one run (insertedId = nextId).
MaxIds == 3

\* new Date().getFullYear(), read by validateArtist and validateAlbum.
CurrentYear == 2026

(***************************************************************************)
(* Text.                                                                   *)
(***************************************************************************)
\* undefined (an absent body field).
UNDEF == <<"undefined">>

(***************************************************************************)
(* Numbers.  A raw body value is a number, a text that is no number, or    *)
(* absent; a JavaScript number is a number, NaN or null.                   *)
(***************************************************************************)
RawNum(v) == [t |-> "num", v |-> v]
RawText == [t |-> "text", v |-> 0]
RawAbsent == [t |-> "undef", v |-> 0]

Num(v) == [t |-> "num", v |-> v]
NaN == [t |-> "nan", v |-> 0]
Null == [t |-> "null", v |-> 0]

\* parseInt(raw)
parseInt(raw) == IF raw.t = "num" THEN Num(raw.v) ELSE NaN

\* isNaN(x): null coerces to 0
isNaN(x) == x.t = "nan"

\* !x for a number: 0, NaN and null are falsy
FalsyNum(x) == x.t # "num" \/ x.v = 0

\* x < c and x > c; every comparison with NaN is false, null compares as 0
LessThan(x, c) == x.t # "nan" /\ x.v < c
GreaterThan(x, c) == x.t # "nan" /\ x.v > c

ToLower(c) ==
  CASE c = "A" -> "a"
    [] c = "B" -> "b"
    [] c = "X" -> "x"
    [] c = "T" -> "t"
    [] c = "Q" -> "q"
    [] c = "S" -> "s"
    [] c = "R" -> "r"
    [] OTHER -> c

toLowerCase(s) == [i \in 1..Len(s) |-> ToLower(s[i])]

RECURSIVE TrimLeft(_)
TrimLeft(s) == IF s # <<>> /\ Head(s) = " " THEN TrimLeft(Tail(s)) ELSE s

RECURSIVE TrimRight(_)
TrimRight(s) ==
  IF s # <<>> /\ s[Len(s)] = " " THEN TrimRight(SubSeq(s, 1, Len(s) - 1)) ELSE s

\* String.prototype.trim
trim(s) == TrimRight(TrimLeft(s))

\* value?.toString().trim() of the sanitizers: undefined stays undefined.
optTrim(s) == IF s = UNDEF THEN UNDEF ELSE trim(s)

\* !value for a text value: undefined and '' are falsy.
Falsy(s) == s = UNDEF \/ s = <<>>

\* value || '' of the sanitizers.
orEmpty(s) == IF Falsy(s) THEN <<>> ELSE s

(***************************************************************************)
(* new RegExp(`^${name}$`, 'i').  The name is spliced into the pattern     *)
(* unescaped: "." is the wildcard and "+" repeats the atom before it; a    *)
(* "+" with no atom before it makes the constructor throw a SyntaxError.   *)
(***************************************************************************)
RegexCompiles(p) ==
  \A i \in 1..Len(p) : p[i] = "+" => (i > 1 /\ p[i - 1] # "+")

AtomMatches(atom, c) ==
  IF atom = "." THEN c # "\n" ELSE ToLower(atom) = ToLower(c)

RECURSIVE RegexMatchFrom(_, _, _, _)
RegexMatchFrom(p, i, s, j) ==
  IF i > Len(p) THEN j > Len(s)
  ELSE IF i < Len(p) /\ p[i + 1] = "+"
    THEN \E k \in 1..(Len(s) - j + 1) :
           /\ \A m \in j..(j + k - 1) : AtomMatches(p[i], s[m])
           /\ RegexMatchFrom(p, i + 2, s, j + k)
    ELSE /\ j <= Len(s)
         /\ AtomMatches(p[i], s[j])
         /\ RegexMatchFrom(p, i + 1, s, j + 1)

\* the store's test of a stored string against new RegExp(`^${p}$`, 'i')
RegexMatch(p, s) == RegexMatchFrom(p, 1, s, 1)

\* Two names are the same name when compared case-insensitively.
SameNameIgnoringCase(s, t) == toLowerCase(s) = toLowerCase(t)

(***************************************************************************)
(* Identifiers.                                                            *)
(***************************************************************************)
Hex(n, up) == [k |-> "hex", n |-> n, up |-> up]
BadId == [k |-> "bad", n |-> 0, up |-> FALSE]
NoId == [k |-> "undef", n |-> 0, up |-> FALSE]

\* ObjectId.isValid(s)
ObjectIdIsValid(s) == s.k = "hex"

\* new ObjectId(s), for a valid s
ObjectId(s) == s.n

\* ObjectId.prototype.toString
ObjectIdToString(n) == Hex(n, FALSE)

\* An ObjectId no insert ever generated (e.g. 507f1f77bcf86cd799439011).
MissingOid == 0

Oids == 1..MaxIds

Put(coll, id, doc) == [x \in DOMAIN coll \cup {id} |-> IF x = id THEN doc ELSE coll[x]]

\* createdAt: new Date() of the literal a create handler or the seed builds,
\* on the model's clock: the number of documents the driver has inserted
\* (updatedAt, which every write refreshes, is left out of the documents)
Created(data, now) ==
  [f \in DOMAIN data \cup {"createdAt"} |-> IF f = "createdAt" THEN now ELSE data[f]]

\* replaceOne({ _id }, data): the document becomes data
replaceOne(coll, id, data) == [coll EXCEPT ![id] = data]

\* updateOne({ _id }, { $set: data }): the fields of data are written, every
\* other field of the document is kept
updateOne(coll, id, data) ==
  [coll EXCEPT ![id] = [f \in DOMAIN coll[id] \cup DOMAIN data |->
                          IF f \in DOMAIN data THEN data[f] ELSE coll[id][f]]]

Remove(coll, id) == [x \in DOMAIN coll \ {id} |-> coll[x]]

Empty == [x \in {} |-> 0]

(***************************************************************************)
(* A handler's result: the response it sends and the store it leaves.     *)
(* Reply is a response that leaves the store as it is.                     *)
(***************************************************************************)
Reply(status, error, details, body) ==
  [status |-> status, error |-> error, details |-> details, body |-> body,
   message |-> "",
   artists |-> artists, albums |-> albums, songs |-> songs,
   playlists |-> playlists, nextId |-> nextId]

Apply(r) ==
  /\ artists' = r.artists
  /\ albums' = r.albums
  /\ songs' = r.songs
  /\ playlists' = r.playlists
  /\ nextId' = r.nextId

\* values of process.env.NODE_ENV
Environments == {"development", "production"}

\* error.message of the error a catch block caught
ErrorMessage == "error.message"

\* the catch block of a route handler: details is error.message in
\* development and undefined otherwise
InternalError ==
  Reply(500, "Internal server error",
        IF NODE_ENV = "development" THEN <<ErrorMessage>> ELSE <<>>, <<>>)

(***************************************************************************)
(* middleware/auth.js                                                      *)
(***************************************************************************)
\* requireAuth with the demo-mode test the wrong way round
requireAuthInverted(user) ==
  IF ~isDemoMode THEN TRUE
  ELSE IF ~user THEN FALSE
  ELSE TRUE

\* requireAuth: TRUE when the request goes on to the handler (next()); user
\* tells whether the session gave the request a req.user.
requireAuth(user) ==
  IF isDemoMode THEN TRUE
  ELSE IF ~user THEN FALSE
  ELSE TRUE

\* req.user when the request reaches a route: passport.session() restores the
\* user of a logged-in session and mockAuth supplies the demo user in demo
\* mode; no middleware reads the Authorization header, so a bearer token
\* changes nothing
reqUser(session, bearer) == session \/ isDemoMode

\* the response of requireAuth when it does not call next()
Unauthorized == Reply(401, "Authentication required", <<>>, <<>>)

\* toggleDemoMode(enable): enable is null when the body names none.
toggleDemoMode(enable) ==
  IF enable # "null" THEN enable = "true" ELSE ~isDemoMode

\* POST /auth/toggle-demo: no requireAuth in front of it
ToggleDemo(user, enable) ==
  /\ isDemoMode' = toggleDemoMode(enable)
  /\ UNCHANGED <<artists, albums, songs, playlists, nextId, removed, process>>

(***************************************************************************)
(* routes/artists.js                                                       *)
(***************************************************************************)
\* new URL(string) succeeds: the text has a scheme
isValidUrl(s) == \E i \in 2..Len(s) : s[i] = ":"

\* the duplicates filter of validateArtist and validatePlaylist
HasDuplicates(seq) == \E i, j \in 1..Len(seq) : i < j /\ seq[i] = seq[j]

RECURSIVE MemberErrors(_, _)
MemberErrors(items, i) ==
  IF i > Len(items) THEN <<>>
  ELSE (IF Falsy(items[i]) \/ Len(trim(items[i])) = 0
          THEN <<"Member " \o ToString(i) \o " must be a non-empty string">>
        ELSE IF Len(trim(items[i])) > 100
          THEN <<"Member " \o ToString(i) \o " name must be less than 100 characters">>
        ELSE <<>>) \o MemberErrors(items, i + 1)

\* validateArtist throws a TypeError at m.trim() when a member is null
validateArtistThrows(a) ==
  /\ a.members.arr
  /\ Len(a.members.items) > 0
  /\ \E i \in 1..Len(a.members.items) : a.members.items[i] = UNDEF

validateArtist(a) ==
  (IF Falsy(a.name) \/ Len(trim(a.name)) = 0
     THEN <<"Artist name is required and must be a non-empty string">>
   ELSE IF Len(trim(a.name)) > 100
     THEN <<"Artist name must be less than 100 characters">>
   ELSE <<>>)
  \o
  (IF Falsy(a.genre) \/ Len(trim(a.genre)) = 0
     THEN <<"Genre is required and must be a non-empty string">>
   ELSE IF Len(trim(a.genre)) > 50
     THEN <<"Genre must be less than 50 characters">>
   ELSE <<>>)
  \o
  (IF Falsy(a.country) \/ Len(trim(a.country)) = 0
     THEN <<"Country is required and must be a non-empty string">>
   ELSE IF Len(trim(a.country)) > 50
     THEN <<"Country must be less than 50 characters">>
   ELSE <<>>)
  \o
  (IF \/ FalsyNum(a.formed_year) \/ isNaN(a.formed_year)
      \/ LessThan(a.formed_year, 1900) \/ GreaterThan(a.formed_year, CurrentYear)
     THEN <<"Valid formed year is required">>
   ELSE <<>>)
  \o
  (IF ~a.members.arr \/ Len(a.members.items) = 0
     THEN <<"At least one member is required">>
   ELSE MemberErrors(a.members.items, 1)
        \o (IF HasDuplicates([i \in 1..Len(a.members.items) |->
                                toLowerCase(trim(a.members.items[i]))])
              THEN <<"Duplicate member names are not allowed">>
            ELSE <<>>))
  \o
  (IF ~Falsy(a.biography) /\ Len(a.biography) > 2000
     THEN <<"Biography must be a string with maximum 2000 characters">>
   ELSE <<>>)
  \o
  (IF ~Falsy(a.website) /\ ~isValidUrl(a.website)
     THEN <<"Website must be a valid URL">>
   ELSE <<>>)
  \o
  (IF a.social_media \notin {"undefined", "object", "{}"}
     THEN <<"Social media must be an object">>
   ELSE <<>>)

\* filter(m => m) of the sanitizers
SelectTruthy(items) == SelectSeq(items, LAMBDA m : ~Falsy(m))

\* POST /artists: sanitize and prepare data
sanitizeArtist(b) ==
  [name |-> optTrim(b.name),
   genre |-> optTrim(b.genre),
   country |-> optTrim(b.country),
   formed_year |-> parseInt(b.formed_year),
   members |-> [arr |-> TRUE,
                items |-> IF b.members.arr
                            THEN SelectTruthy([i \in 1..Len(b.members.items) |->
                                                 optTrim(b.members.items[i])])
                            ELSE <<>>],
   biography |-> orEmpty(optTrim(b.biography)),
   website |-> orEmpty(optTrim(b.website)),
   social_media |-> IF b.social_media = "object" THEN "object" ELSE "{}"]

\* PUT /artists/:id: the body is taken as sent
prepareArtistUpdate(b) ==
  [name |-> b.name,
   genre |-> b.genre,
   country |-> b.country,
   formed_year |-> parseInt(b.formed_year),
   members |-> b.members,
   biography |-> orEmpty(b.biography),
   website |-> orEmpty(b.website),
   social_media |-> IF b.social_media = "undefined" THEN "{}" ELSE b.social_media]

\* the stored artist whose name the duplicate query of POST /artists matches
artistNameTaken(name) ==
  \E x \in DOMAIN artists : RegexMatch(name, artists[x].name)

\* POST /artists
PostArtistResult(user, b) ==
  LET data == sanitizeArtist(b)
      errors == validateArtist(data)
  IN
  IF ~requireAuth(user) THEN Unauthorized
     ELSE IF errors # <<>> THEN
       Reply(400, "Validation failed", errors, <<>>)
     ELSE IF ~RegexCompiles(data.name) THEN
       InternalError
     ELSE IF artistNameTaken(data.name) THEN
       Reply(409, "Artist already exists", <<>>, <<>>)
     ELSE
       [Reply(201, "", <<>>, <<nextId>>)
         EXCEPT !.artists = Put(artists, nextId, Created(data, nextId)), !.nextId = nextId + 1]

\* PUT /artists/:id
PutArtistResult(user, id, b) ==
  LET data == prepareArtistUpdate(b)
  IN
  IF ~requireAuth(user) THEN Unauthorized
  ELSE IF ~ObjectIdIsValid(id) THEN
    Reply(400, "Invalid artist ID format", <<>>, <<>>)
  ELSE IF validateArtistThrows(data) THEN
    Reply(500, "Internal server error", <<>>, <<>>)
  ELSE IF validateArtist(data) # <<>> THEN
    Reply(400, "Validation failed", validateArtist(data), <<>>)
  ELSE IF ObjectId(id) \notin DOMAIN artists THEN
    Reply(404, "Artist not found", <<>>, <<>>)
  ELSE
    [Reply(204, "", <<>>, <<>>) EXCEPT !.artists = updateOne(artists, ObjectId(id), data)]

\* countDocuments({ artist_id: req.params.id }): the stored string is compared
\* with the request's string
albumsCount(id) == Cardinality({x \in DOMAIN albums : albums[x].artist_id = id})

\* DELETE /artists/:id
DeleteArtistResult(user, id) ==
  IF ~requireAuth(user) THEN Unauthorized
  ELSE IF ~ObjectIdIsValid(id) THEN
    Reply(400, "Invalid artist ID format", <<>>, <<>>)
  ELSE IF albumsCount(id) > 0 THEN
    Reply(400, "Cannot delete artist", <<>>, <<>>)
  ELSE IF ObjectId(id) \notin DOMAIN artists THEN
    Reply(404, "Artist not found", <<>>, <<>>)
  ELSE
    [Reply(200, "", <<>>, <<>>) EXCEPT !.artists = Remove(artists, ObjectId(id))]

(***************************************************************************)
(* routes/albums.js.  A release date is RawNum(y) (a date string of year   *)
(* y), RawText (a text new Date() cannot parse) or RawAbsent.              *)
(***************************************************************************)
validateAlbum(a) ==
  (IF Falsy(a.title) \/ Len(trim(a.title)) = 0
     THEN <<"Album title is required and must be a non-empty string">>
   ELSE IF Len(trim(a.title)) > 200
     THEN <<"Album title must be less than 200 characters">>
   ELSE <<>>)
  \o
  (IF a.artist_id.k = "undef" \/ ~ObjectIdIsValid(a.artist_id)
     THEN <<"Valid artist ID is required">>
   ELSE <<>>)
  \o
  (IF a.release_date.t = "undef" THEN <<"Release date is required">>
   ELSE IF a.release_date.t = "text"
     THEN <<"Valid release date is required (YYYY-MM-DD format)">>
   ELSE IF a.release_date.v > CurrentYear
     THEN <<"Release date cannot be in the future">>
   ELSE IF a.release_date.v < 1900
     THEN <<"Release date cannot be before 1900">>
   ELSE <<>>)
  \o
  (IF Falsy(a.genre) \/ Len(trim(a.genre)) = 0
     THEN <<"Genre is required and must be a non-empty string">>
   ELSE IF Len(trim(a.genre)) > 50
     THEN <<"Genre must be less than 50 characters">>
   ELSE <<>>)
  \o
  (IF FalsyNum(a.track_count) \/ isNaN(a.track_count) \/ LessThan(a.track_count, 1)
     THEN <<"Valid track count is required (minimum 1)">>
   ELSE IF GreaterThan(a.track_count, 200)
     THEN <<"Track count cannot exceed 200">>
   ELSE <<>>)
  \o
  (IF FalsyNum(a.duration) \/ isNaN(a.duration) \/ LessThan(a.duration, 1)
     THEN <<"Valid duration in minutes is required (minimum 1)">>
   ELSE IF GreaterThan(a.duration, 600)
     THEN <<"Duration cannot exceed 600 minutes (10 hours)">>
   ELSE <<>>)
  \o
  (IF ~Falsy(a.record_label) /\ Len(a.record_label) > 100
     THEN <<"Record label must be a string with maximum 100 characters">>
   ELSE <<>>)
  \o
  (IF ~Falsy(a.cover_image_url) /\ ~isValidUrl(a.cover_image_url)
     THEN <<"Cover image URL must be a valid URL">>
   ELSE <<>>)

\* POST /albums: sanitize and prepare data
sanitizeAlbum(b) ==
  [title |-> optTrim(b.title),
   artist_id |-> b.artist_id,
   release_date |-> b.release_date,
   genre |-> optTrim(b.genre),
   track_count |-> parseInt(b.track_count),
   duration |-> parseInt(b.duration),
   record_label |-> orEmpty(optTrim(b.record_label)),
   cover_image_url |-> orEmpty(optTrim(b.cover_image_url))]

\* PUT /albums/:id: the body is taken as sent
prepareAlbumUpdate(b) ==
  [title |-> b.title,
   artist_id |-> b.artist_id,
   release_date |-> b.release_date,
   genre |-> b.genre,
   track_count |-> parseInt(b.track_count),
   duration |-> parseInt(b.duration),
   record_label |-> orEmpty(b.record_label),
   cover_image_url |-> orEmpty(b.cover_image_url)]

\* findOne({ title: new RegExp(`^${title}$`, 'i'), artist_id }) finds an album
albumTitleTaken(title, artist_id) ==
  \E x \in DOMAIN albums :
    RegexMatch(title, albums[x].title) /\ albums[x].artist_id = artist_id

\* POST /albums with the duplicate check in front of the artist check
PostAlbumResultDuplicateFirst(user, b) ==
  LET data == sanitizeAlbum(b)
      errors == validateAlbum(data)
  IN
  IF ~requireAuth(user) THEN Unauthorized
     ELSE IF errors # <<>> THEN
       Reply(400, "Validation failed", errors, <<>>)
     ELSE IF ~RegexCompiles(data.title) THEN
       InternalError
     ELSE IF albumTitleTaken(data.title, data.artist_id) THEN
       Reply(409, "Album already exists", <<>>, <<>>)
     ELSE IF ObjectId(data.artist_id) \notin DOMAIN artists THEN
       Reply(400, "Artist not found", <<>>, <<>>)
     ELSE
       [Reply(201, "", <<>>, <<nextId>>)
         EXCEPT !.albums = Put(albums, nextId, Created(data, nextId)), !.nextId = nextId + 1]

\* POST /albums
PostAlbumResult(user, b) ==
  LET data == sanitizeAlbum(b)
      errors == validateAlbum(data)
  IN
  IF ~requireAuth(user) THEN Unauthorized
     ELSE IF errors # <<>> THEN
       Reply(400, "Validation failed", errors, <<>>)
     ELSE IF ObjectId(data.artist_id) \notin DOMAIN artists THEN
       Reply(400, "Artist not found", <<>>, <<>>)
     ELSE IF ~RegexCompiles(data.title) THEN
       InternalError
     ELSE IF albumTitleTaken(data.title, data.artist_id) THEN
       Reply(409, "Album already exists", <<>>, <<>>)
     ELSE
       [Reply(201, "", <<>>, <<nextId>>)
         EXCEPT !.albums = Put(albums, nextId, Created(data, nextId)), !.nextId = nextId + 1]

\* PUT /albums/:id with field validation in front of the id check
PutAlbumResultValidateFirst(user, id, b) ==
  LET data == prepareAlbumUpdate(b)
      errors == validateAlbum(data)
  IN
  IF ~requireAuth(user) THEN Unauthorized
  ELSE IF errors # <<>> THEN
    Reply(400, "Validation failed", errors, <<>>)
  ELSE IF ~ObjectIdIsValid(id) THEN
    Reply(400, "Invalid album ID format", <<>>, <<>>)
  ELSE IF ObjectId(data.artist_id) \notin DOMAIN artists THEN
    Reply(400, "Artist not found", <<>>, <<>>)
  ELSE IF ObjectId(id) \notin DOMAIN albums THEN
    Reply(404, "Album not found", <<>>, <<>>)
  ELSE
    [Reply(204, "", <<>>, <<>>) EXCEPT !.albums = updateOne(albums, ObjectId(id), data)]

\* PUT /albums/:id
PutAlbumResult(user, id, b) ==
  LET data == prepareAlbumUpdate(b)
      errors == validateAlbum(data)
  IN
  IF ~requireAuth(user) THEN Unauthorized
  ELSE IF ~ObjectIdIsValid(id) THEN
    Reply(400, "Invalid album ID format", <<>>, <<>>)
  ELSE IF errors # <<>> THEN
    Reply(400, "Validation failed", errors, <<>>)
  ELSE IF ObjectId(data.artist_id) \notin DOMAIN artists THEN
    Reply(400, "Artist not found", <<>>, <<>>)
  ELSE IF ObjectId(id) \notin DOMAIN albums THEN
    Reply(404, "Album not found", <<>>, <<>>)
  ELSE
    [Reply(204, "", <<>>, <<>>) EXCEPT !.albums = updateOne(albums, ObjectId(id), data)]

\* DELETE /albums/:id that does not look at deletedCount
DeleteAlbumResultAlways200(user, id) ==
  IF ~requireAuth(user) THEN Unauthorized
  ELSE IF ~ObjectIdIsValid(id) THEN
    Reply(400, "Invalid album ID format", <<>>, <<>>)
  ELSE
    [Reply(200, "", <<>>, <<>>) EXCEPT !.albums = Remove(albums, ObjectId(id))]

\* DELETE /albums/:id
DeleteAlbumResult(user, id) ==
  IF ~requireAuth(user) THEN Unauthorized
  ELSE IF ~ObjectIdIsValid(id) THEN
    Reply(400, "Invalid album ID format", <<>>, <<>>)
  ELSE IF ObjectId(id) \notin DOMAIN albums THEN
    Reply(404, "Album not found", <<>>, <<>>)
  ELSE
    [Reply(200, "", <<>>, <<>>) EXCEPT !.albums = Remove(albums, ObjectId(id))]

(***************************************************************************)
(* routes/songs.js                                                         *)
(***************************************************************************)
validateSong(g) ==
  (IF Falsy(g.title) \/ Len(trim(g.title)) = 0
     THEN <<"Song title is required and must be a non-empty string">>
   ELSE IF Len(trim(g.title)) > 200
     THEN <<"Song title must be less than 200 characters">>
   ELSE <<>>)
  \o
  (IF g.album_id.k = "undef" \/ ~ObjectIdIsValid(g.album_id)
     THEN <<"Valid album ID is required">>
   ELSE <<>>)
  \o
  (IF g.artist_id.k = "undef" \/ ~ObjectIdIsValid(g.artist_id)
     THEN <<"Valid artist ID is required">>
   ELSE <<>>)
  \o
  (IF FalsyNum(g.duration) \/ isNaN(g.duration) \/ LessThan(g.duration, 1)
     THEN <<"Valid duration in seconds is required (minimum 1)">>
   ELSE IF GreaterThan(g.duration, 3600)
     THEN <<"Duration cannot exceed 3600 seconds (1 hour)">>
   ELSE <<>>)
  \o
  (IF ~FalsyNum(g.track_number) /\ (isNaN(g.track_number) \/ LessThan(g.track_number, 1))
     THEN <<"Track number must be a positive integer">>
   ELSE IF ~FalsyNum(g.track_number) /\ GreaterThan(g.track_number, 200)
     THEN <<"Track number cannot exceed 200">>
   ELSE <<>>)
  \o
  (IF Falsy(g.genre) \/ Len(trim(g.genre)) = 0
     THEN <<"Genre is required and must be a non-empty string">>
   ELSE IF Len(trim(g.genre)) > 50
     THEN <<"Genre must be less than 50 characters">>
   ELSE <<>>)
  \o
  (IF ~Falsy(g.lyrics) /\ Len(g.lyrics) > 10000
     THEN <<"Lyrics must be a string with maximum 10,000 characters">>
   ELSE <<>>)
  \o
  (IF ~Falsy(g.audio_url) /\ ~isValidUrl(g.audio_url)
     THEN <<"Audio URL must be a valid URL">>
   ELSE <<>>)

\* req.body.track_number is truthy: a number other than 0, or a non-empty text
TruthyRaw(raw) == raw.t = "text" \/ (raw.t = "num" /\ raw.v # 0)

\* POST /songs and PUT /songs/:id: sanitize and prepare data
sanitizeSong(b) ==
  [title |-> optTrim(b.title),
   album_id |-> b.album_id,
   artist_id |-> b.artist_id,
   duration |-> parseInt(b.duration),
   track_number |-> IF TruthyRaw(b.track_number) THEN parseInt(b.track_number) ELSE Null,
   genre |-> optTrim(b.genre),
   lyrics |-> orEmpty(optTrim(b.lyrics)),
   audio_url |-> orEmpty(optTrim(b.audio_url)),
   featured_artists |-> IF b.featured_artists.arr
                          THEN SelectTruthy([i \in 1..Len(b.featured_artists.items) |->
                                               optTrim(b.featured_artists.items[i])])
                          ELSE <<>>]

songTitleTaken(title, album_id) ==
  \E x \in DOMAIN songs :
    RegexMatch(title, songs[x].title) /\ songs[x].album_id = album_id

trackNumberTaken(track_number, album_id) ==
  \E x \in DOMAIN songs :
    songs[x].album_id = album_id /\ songs[x].track_number = track_number

\* POST /songs
PostSongResult(user, b) ==
  LET data == sanitizeSong(b)
      errors == validateSong(data)
  IN
  IF ~requireAuth(user) THEN Unauthorized
     ELSE IF errors # <<>> THEN
       Reply(400, "Validation failed", errors, <<>>)
     ELSE IF ObjectId(data.album_id) \notin DOMAIN albums THEN
       Reply(400, "Album not found", <<>>, <<>>)
     ELSE IF ObjectId(data.artist_id) \notin DOMAIN artists THEN
       Reply(400, "Artist not found", <<>>, <<>>)
     ELSE IF ~RegexCompiles(data.title) THEN
       InternalError
     ELSE IF songTitleTaken(data.title, data.album_id) THEN
       Reply(409, "Song already exists", <<>>, <<>>)
     ELSE IF ~FalsyNum(data.track_number)
             /\ trackNumberTaken(data.track_number, data.album_id) THEN
       Reply(409, "Track number already exists", <<>>, <<>>)
     ELSE
       [Reply(201, "", <<>>, <<nextId>>)
         EXCEPT !.songs = Put(songs, nextId, Created(data, nextId)), !.nextId = nextId + 1]

\* PUT /songs/:id
PutSongResult(user, id, b) ==
  LET data == sanitizeSong(b)
      errors == validateSong(data)
  IN
  IF ~requireAuth(user) THEN Unauthorized
  ELSE IF ~ObjectIdIsValid(id) THEN
    Reply(400, "Invalid song ID format", <<>>, <<>>)
  ELSE IF errors # <<>> THEN
    Reply(400, "Validation failed", errors, <<>>)
  ELSE IF ObjectId(data.album_id) \notin DOMAIN albums THEN
    Reply(400, "Album not found", <<>>, <<>>)
  ELSE IF ObjectId(data.artist_id) \notin DOMAIN artists THEN
    Reply(400, "Artist not found", <<>>, <<>>)
  ELSE IF ObjectId(id) \notin DOMAIN songs THEN
    Reply(404, "Song not found", <<>>, <<>>)
  ELSE
    [Reply(204, "", <<>>, <<>>) EXCEPT !.songs = updateOne(songs, ObjectId(id), data)]

\* DELETE /songs/:id
DeleteSongResult(user, id) ==
  IF ~requireAuth(user) THEN Unauthorized
  ELSE IF ~ObjectIdIsValid(id) THEN
    Reply(400, "Invalid song ID format", <<>>, <<>>)
  ELSE IF ObjectId(id) \notin DOMAIN songs THEN
    Reply(404, "Song not found", <<>>, <<>>)
  ELSE
    [Reply(200, "", <<>>, <<>>) EXCEPT !.songs = Remove(songs, ObjectId(id))]

(***************************************************************************)
(* routes/playlists.js                                                     *)
(***************************************************************************)
RECURSIVE SongIdErrors(_, _)
SongIdErrors(items, i) ==
  IF i > Len(items) THEN <<>>
  ELSE (IF ~ObjectIdIsValid(items[i])
          THEN <<"Song " \o ToString(i) \o " must be a valid MongoDB ObjectId">>
        ELSE <<>>) \o SongIdErrors(items, i + 1)

RECURSIVE TagErrors(_, _)
TagErrors(items, i) ==
  IF i > Len(items) THEN <<>>
  ELSE (IF Falsy(items[i]) \/ Len(trim(items[i])) = 0
          THEN <<"Tag " \o ToString(i) \o " must be a non-empty string">>
        ELSE IF Len(trim(items[i])) > 30
          THEN <<"Tag " \o ToString(i) \o " must be less than 30 characters">>
        ELSE <<>>) \o TagErrors(items, i + 1)

validatePlaylist(p) ==
  (IF Falsy(p.name) \/ Len(trim(p.name)) = 0
     THEN <<"Playlist name is required and must be a non-empty string">>
   ELSE IF Len(trim(p.name)) > 100
     THEN <<"Playlist name must be less than 100 characters">>
   ELSE <<>>)
  \o
  (IF Falsy(p.creator_name) \/ Len(trim(p.creator_name)) = 0
     THEN <<"Creator name is required and must be a non-empty string">>
   ELSE IF Len(trim(p.creator_name)) > 100
     THEN <<"Creator name must be less than 100 characters">>
   ELSE <<>>)
  \o
  (IF ~Falsy(p.description) /\ Len(p.description) > 1000
     THEN <<"Description must be a string with maximum 1000 characters">>
   ELSE <<>>)
  \o
  SongIdErrors(p.songs, 1)
  \o
  (IF HasDuplicates(p.songs)
     THEN <<"Duplicate songs are not allowed in the playlist">>
   ELSE <<>>)
  \o
  TagErrors(p.tags, 1)
  \o
  (IF ~Falsy(p.cover_image_url) /\ ~isValidUrl(p.cover_image_url)
     THEN <<"Cover image URL must be a valid URL">>
   ELSE <<>>)

\* POST /playlists and PUT /playlists/:id: sanitize and prepare data
sanitizePlaylist(b) ==
  [name |-> optTrim(b.name),
   creator_name |-> optTrim(b.creator_name),
   description |-> orEmpty(optTrim(b.description)),
   songs |-> IF b.songs.arr
               THEN SelectSeq(b.songs.items, LAMBDA id : ObjectIdIsValid(id))
               ELSE <<>>,
   tags |-> IF b.tags.arr
              THEN SelectTruthy([i \in 1..Len(b.tags.items) |-> optTrim(b.tags.items[i])])
              ELSE <<>>,
   is_public |-> b.is_public,
   cover_image_url |-> orEmpty(optTrim(b.cover_image_url))]

\* songs.find({ _id: { $in: songIds } }).toArray(): the stored songs among the ids
existingSongs(ids) == {ObjectId(ids[i]) : i \in 1..Len(ids)} \cap DOMAIN songs

playlistNameTaken(name, creator_name) ==
  \E x \in DOMAIN playlists :
    RegexMatch(name, playlists[x].name) /\ playlists[x].creator_name = creator_name

\* POST /playlists
PostPlaylistResult(user, b) ==
  LET data == sanitizePlaylist(b)
      errors == validatePlaylist(data)
  IN
  IF ~requireAuth(user) THEN Unauthorized
     ELSE IF errors # <<>> THEN
       Reply(400, "Validation failed", errors, <<>>)
     ELSE IF Len(data.songs) > 0
             /\ Cardinality(existingSongs(data.songs)) # Len(data.songs) THEN
       Reply(400, "Invalid songs", <<>>, <<>>)
     ELSE IF ~RegexCompiles(data.name) THEN
       InternalError
     ELSE IF playlistNameTaken(data.name, data.creator_name) THEN
       Reply(409, "Playlist already exists", <<>>, <<>>)
     ELSE
       [Reply(201, "", <<>>, <<nextId>>)
         EXCEPT !.playlists = Put(playlists, nextId, Created(data, nextId)), !.nextId = nextId + 1]

\* PUT /playlists/:id
PutPlaylistResult(user, id, b) ==
  LET data == sanitizePlaylist(b)
      errors == validatePlaylist(data)
  IN
  IF ~requireAuth(user) THEN Unauthorized
  ELSE IF ~ObjectIdIsValid(id) THEN
    Reply(400, "Invalid playlist ID format", <<>>, <<>>)
  ELSE IF errors # <<>> THEN
    Reply(400, "Validation failed", errors, <<>>)
  ELSE IF Len(data.songs) > 0
          /\ Cardinality(existingSongs(data.songs)) # Len(data.songs) THEN
    Reply(400, "Invalid songs", <<>>, <<>>)
  ELSE IF ObjectId(id) \notin DOMAIN playlists THEN
    Reply(404, "Playlist not found", <<>>, <<>>)
  ELSE
    [Reply(204, "", <<>>, <<>>) EXCEPT !.playlists = updateOne(playlists, ObjectId(id), data)]

\* playlist.songs.includes(req.params.songId): the strings are compared
songsIncludes(list, songId) == \E i \in 1..Len(list) : list[i] = songId

\* PUT /playlists/:id/songs/:songId with $push: { songs: { $each: [songId],
\* $position: 0 } }: the song goes to the head of the list
AddSongToPlaylistResultAtHead(user, id, songId) ==
  IF ~requireAuth(user) THEN Unauthorized
  ELSE IF ~ObjectIdIsValid(id) THEN
    Reply(400, "Invalid playlist ID format", <<>>, <<>>)
  ELSE IF ~ObjectIdIsValid(songId) THEN
    Reply(400, "Invalid song ID format", <<>>, <<>>)
  ELSE IF ObjectId(songId) \notin DOMAIN songs THEN
    Reply(404, "Song not found", <<>>, <<>>)
  ELSE IF ObjectId(id) \notin DOMAIN playlists THEN
    Reply(404, "Playlist not found", <<>>, <<>>)
  ELSE IF songsIncludes(playlists[ObjectId(id)].songs, songId) THEN
    Reply(409, "Song already in playlist", <<>>, <<>>)
  ELSE
    [Reply(200, "", <<>>, <<>>) EXCEPT !.playlists = [playlists EXCEPT ![ObjectId(id)].songs = <<songId>> \o playlists[ObjectId(id)].songs]]

\* PUT /playlists/:id/songs/:songId
AddSongToPlaylistResult(user, id, songId) ==
  IF ~requireAuth(user) THEN Unauthorized
  ELSE IF ~ObjectIdIsValid(id) THEN
    Reply(400, "Invalid playlist ID format", <<>>, <<>>)
  ELSE IF ~ObjectIdIsValid(songId) THEN
    Reply(400, "Invalid song ID format", <<>>, <<>>)
  ELSE IF ObjectId(songId) \notin DOMAIN songs THEN
    Reply(404, "Song not found", <<>>, <<>>)
  ELSE IF ObjectId(id) \notin DOMAIN playlists THEN
    Reply(404, "Playlist not found", <<>>, <<>>)
  ELSE IF songsIncludes(playlists[ObjectId(id)].songs, songId) THEN
    Reply(409, "Song already in playlist", <<>>, <<>>)
  ELSE
    [Reply(200, "", <<>>, <<>>) EXCEPT !.playlists = [playlists EXCEPT ![ObjectId(id)].songs = Append(playlists[ObjectId(id)].songs, songId)]]

\* $pull: { songs: songId }: every element equal to the string is removed
pull(list, songId) == SelectSeq(list, LAMBDA x : x # songId)

\* DELETE /playlists/:id/songs/:songId that refuses a song the list does not
\* hold, as the add-song handler refuses one it holds
RemoveSongFromPlaylistResultStrict(user, id, songId) ==
  IF ~requireAuth(user) THEN Unauthorized
  ELSE IF ~ObjectIdIsValid(id) THEN
    Reply(400, "Invalid playlist ID format", <<>>, <<>>)
  ELSE IF ~ObjectIdIsValid(songId) THEN
    Reply(400, "Invalid song ID format", <<>>, <<>>)
  ELSE IF ObjectId(id) \notin DOMAIN playlists THEN
    Reply(404, "Playlist not found", <<>>, <<>>)
  ELSE IF ~songsIncludes(playlists[ObjectId(id)].songs, songId) THEN
    Reply(404, "Song not in playlist", <<>>, <<>>)
  ELSE
    [Reply(200, "", <<>>, <<>>) EXCEPT !.playlists = [playlists EXCEPT ![ObjectId(id)].songs = pull(playlists[ObjectId(id)].songs, songId)]]

\* DELETE /playlists/:id/songs/:songId
RemoveSongFromPlaylistResult(user, id, songId) ==
  IF ~requireAuth(user) THEN Unauthorized
  ELSE IF ~ObjectIdIsValid(id) THEN
    Reply(400, "Invalid playlist ID format", <<>>, <<>>)
  ELSE IF ~ObjectIdIsValid(songId) THEN
    Reply(400, "Invalid song ID format", <<>>, <<>>)
  ELSE IF ObjectId(id) \notin DOMAIN playlists THEN
    Reply(404, "Playlist not found", <<>>, <<>>)
  ELSE
    [Reply(200, "", <<>>, <<>>) EXCEPT !.playlists = [playlists EXCEPT ![ObjectId(id)].songs = pull(playlists[ObjectId(id)].songs, songId)]]

\* DELETE /playlists/:id
DeletePlaylistResult(user, id) ==
  IF ~requireAuth(user) THEN Unauthorized
  ELSE IF ~ObjectIdIsValid(id) THEN
    Reply(400, "Invalid playlist ID format", <<>>, <<>>)
  ELSE IF ObjectId(id) \notin DOMAIN playlists THEN
    Reply(404, "Playlist not found", <<>>, <<>>)
  ELSE
    [Reply(200, "", <<>>, <<>>) EXCEPT !.playlists = Remove(playlists, ObjectId(id))]

\* GET /playlists/:id/songs: the songs found by $in, put in the order of
\* playlist.songs by comparing song._id.toString() with the stored string
orderedSongs(list) ==
  LET found == existingSongs(list)
      hit(songId) == \E g \in found : ObjectIdToString(g) = songId
      kept == SelectSeq(list, hit)
  IN [i \in 1..Len(kept) |-> ObjectId(kept[i])]

GetPlaylistSongsResult(id) ==
  IF ~ObjectIdIsValid(id) THEN
       Reply(400, "Invalid playlist ID format", <<>>, <<>>)
     ELSE IF ObjectId(id) \notin DOMAIN playlists THEN
       Reply(404, "Playlist not found", <<>>, <<>>)
     ELSE IF Len(playlists[ObjectId(id)].songs) = 0 THEN
       Reply(200, "", <<>>, <<>>)
     ELSE
       Reply(200, "", <<>>, orderedSongs(playlists[ObjectId(id)].songs))

(***************************************************************************)
(* GET /albums/artist/:artistId, /songs/album/:albumId and                 *)
(* /songs/artist/:artistId: the documents whose reference field holds the  *)
(* request's string.  The body is the sequence of their _ids.              *)
(***************************************************************************)
\* the _ids of a collection in insertion order
RECURSIVE InOrder(_)
InOrder(ids) ==
  IF ids = {} THEN <<>>
  ELSE LET m == CHOOSE x \in ids : \A y \in ids : x <= y
       IN <<m>> \o InOrder(ids \ {m})

\* the place of a track_number in an ascending sort: null, then NaN, then
\* the numbers
TrackKey(n) ==
  IF n.t = "null" THEN 0 - 2 ELSE IF n.t = "nan" THEN 0 - 1 ELSE n.v

\* sort({ track_number: 1 }); songs with the same key stay in insertion order
RECURSIVE SortByTrackNumber(_)
SortByTrackNumber(ids) ==
  IF ids = {} THEN <<>>
  ELSE LET m == CHOOSE x \in ids : \A y \in ids :
                  \/ TrackKey(songs[x].track_number) < TrackKey(songs[y].track_number)
                  \/ /\ TrackKey(songs[x].track_number) = TrackKey(songs[y].track_number)
                     /\ x <= y
       IN <<m>> \o SortByTrackNumber(ids \ {m})

\* GET /albums/artist/:artistId
GetAlbumsByArtistResult(artistId) ==
  IF ~ObjectIdIsValid(artistId) THEN
    Reply(400, "Invalid artist ID format", <<>>, <<>>)
  ELSE
    Reply(200, "", <<>>, InOrder({x \in DOMAIN albums : albums[x].artist_id = artistId}))

\* GET /songs/album/:albumId
GetSongsByAlbumResult(albumId) ==
  IF ~ObjectIdIsValid(albumId) THEN
    Reply(400, "Invalid album ID format", <<>>, <<>>)
  ELSE
    Reply(200, "", <<>>,
          SortByTrackNumber({x \in DOMAIN songs : songs[x].album_id = albumId}))

\* GET /songs/artist/:artistId
GetSongsByArtistResult(artistId) ==
  IF ~ObjectIdIsValid(artistId) THEN
    Reply(400, "Invalid artist ID format", <<>>, <<>>)
  ELSE
    Reply(200, "", <<>>, InOrder({x \in DOMAIN songs : songs[x].artist_id = artistId}))

(***************************************************************************)
(* GET /artists, /albums, /songs, /playlists: the list handlers.  All four *)
(* compute page, limit, skip and the pagination block in the same way.     *)
(* The driver sends a negative limit as its absolute value (one batch) and *)
(* the server refuses a negative skip, which the handler's catch block     *)
(* answers with 500.  No filter and no sort are modelled: the query        *)
(* matches every document and the result comes in insertion order.         *)
(***************************************************************************)
\* limit > 100 is refused
MaxLimit == 100

\* parseInt(req.query.page) || 1 and parseInt(req.query.limit) || 10
DefaultPage == 1
DefaultLimit == 10

\* parseInt(raw) || d
OrDefault(raw, d) == IF FalsyNum(parseInt(raw)) THEN d ELSE parseInt(raw).v

Abs(n) == IF n < 0 THEN 0 - n ELSE n

\* Math.ceil(n / l) for n >= 0 and l # 0
MathCeil(n, l) ==
  IF l > 0 THEN (n + l - 1) \div l ELSE 0 - (n \div Abs(l))

\* find(query, { skip, limit }).toArray() for skip >= 0
findPage(coll, skip, limit) ==
  LET all == InOrder(DOMAIN coll)
      to == IF skip + Abs(limit) < Len(all) THEN skip + Abs(limit) ELSE Len(all)
  IN SubSeq(all, skip + 1, to)

\* the list handler with a limit above 100 clamped to 100
ListResultClamped(coll, rawPage, rawLimit) ==
  LET page == OrDefault(rawPage, DefaultPage)
      given == OrDefault(rawLimit, DefaultLimit)
      limit == IF given > MaxLimit THEN MaxLimit ELSE given
      skip == (page - 1) * limit
      totalCount == Cardinality(DOMAIN coll)
  IN
  IF skip < 0 THEN
    InternalError
  ELSE
    Reply(200, "", <<>>,
          [items |-> findPage(coll, skip, limit),
           currentPage |-> page,
           totalPages |-> MathCeil(totalCount, limit),
           totalItems |-> totalCount,
           hasNext |-> page * limit < totalCount,
           hasPrev |-> page > 1])

ListResult(coll, rawPage, rawLimit) ==
  LET page == OrDefault(rawPage, DefaultPage)
      limit == OrDefault(rawLimit, DefaultLimit)
      skip == (page - 1) * limit
      totalCount == Cardinality(DOMAIN coll)
  IN
  IF limit > MaxLimit THEN
    Reply(400, "Invalid limit", <<>>, <<>>)
  ELSE IF skip < 0 THEN
    InternalError
  ELSE
    Reply(200, "", <<>>,
          [items |-> findPage(coll, skip, limit),
           currentPage |-> page,
           totalPages |-> MathCeil(totalCount, limit),
           totalItems |-> totalCount,
           hasNext |-> page * limit < totalCount,
           hasPrev |-> page > 1])

\* GET /artists
GetArtistsResult(rawPage, rawLimit) == ListResult(artists, rawPage, rawLimit)

\* GET /albums
GetAlbumsResult(rawPage, rawLimit) == ListResult(albums, rawPage, rawLimit)

\* GET /songs
GetSongsResult(rawPage, rawLimit) == ListResult(songs, rawPage, rawLimit)

\* GET /playlists
GetPlaylistsResult(rawPage, rawLimit) == ListResult(playlists, rawPage, rawLimit)

(***************************************************************************)
(* server.js: POST /seed.  The handler empties the four collections and    *)
(* inserts the sample artists; building sampleSongs then reads albumIds,   *)
(* which is declared nowhere, so a ReferenceError is thrown and the catch  *)
(* block answers 500 with the artists inserted and nothing else.           *)
(***************************************************************************)
sampleArtists ==
  <<[name |-> <<"T", "h", "e", " ", "B", "e", "a", "t", "l", "e", "s">>,
     genre |-> <<"R", "o", "c", "k">>,
     country |-> <<"U", "n", "i", "t", "e", "d", " ", "K", "i", "n", "g", "d", "o", "m">>,
     formed_year |-> Num(1960),
     members |-> [arr |-> TRUE, items |-> <<<<"J", "o", "h", "n", " ", "L", "e", "n", "n", "o", "n">>,
                                           <<"P", "a", "u", "l", " ", "M", "c", "C", "a", "r", "t", "n", "e", "y">>,
                                           <<"G", "e", "o", "r", "g", "e", " ", "H", "a", "r", "r", "i", "s", "o", "n">>,
                                           <<"R", "i", "n", "g", "o", " ", "S", "t", "a", "r", "r">>>>],
     biography |-> <<"T", "h", "e", " ", "B", "e", "a", "t", "l", "e", "s", " ", "w", "e", "r", "e", " ", "a", "n", " ", "E", "n", "g", "l", "i", "s", "h", " ", "r", "o", "c", "k", " ", "b", "a", "n", "d", " ", "f", "o", "r", "m", "e", "d", " ", "i", "n", " ", "L", "i", "v", "e", "r", "p", "o", "o", "l", " ", "i", "n", " ", "1", "9", "6", "0", ".">>,
     website |-> <<"h", "t", "t", "p", "s", ":", "/", "/", "w", "w", "w", ".", "t", "h", "e", "b", "e", "a", "t", "l", "e", "s", ".", "c", "o", "m">>,
     social_media |-> "object"],
    [name |-> <<"Q", "u", "e", "e", "n">>,
     genre |-> <<"R", "o", "c", "k">>,
     country |-> <<"U", "n", "i", "t", "e", "d", " ", "K", "i", "n", "g", "d", "o", "m">>,
     formed_year |-> Num(1970),
     members |-> [arr |-> TRUE, items |-> <<<<"F", "r", "e", "d", "d", "i", "e", " ", "M", "e", "r", "c", "u", "r", "y">>,
                                           <<"B", "r", "i", "a", "n", " ", "M", "a", "y">>,
                                           <<"R", "o", "g", "e", "r", " ", "T", "a", "y", "l", "o", "r">>,
                                           <<"J", "o", "h", "n", " ", "D", "e", "a", "c", "o", "n">>>>],
     biography |-> <<"Q", "u", "e", "e", "n", " ", "a", "r", "e", " ", "a", " ", "B", "r", "i", "t", "i", "s", "h", " ", "r", "o", "c", "k", " ", "b", "a", "n", "d", " ", "f", "o", "r", "m", "e", "d", " ", "i", "n", " ", "L", "o", "n", "d", "o", "n", " ", "i", "n", " ", "1", "9", "7", "0", ".">>,
     website |-> <<"h", "t", "t", "p", "s", ":", "/", "/", "w", "w", "w", ".", "q", "u", "e", "e", "n", "o", "n", "l", "i", "n", "e", ".", "c", "o", "m">>,
     social_media |-> "object"],
    [name |-> <<"T", "a", "y", "l", "o", "r", " ", "S", "w", "i", "f", "t">>,
     genre |-> <<"P", "o", "p">>,
     country |-> <<"U", "n", "i", "t", "e", "d", " ", "S", "t", "a", "t", "e", "s">>,
     formed_year |-> Num(2006),
     members |-> [arr |-> TRUE, items |-> <<<<"T", "a", "y", "l", "o", "r", " ", "S", "w", "i", "f", "t">>>>],
     biography |-> <<"A", "m", "e", "r", "i", "c", "a", "n", " ", "s", "i", "n", "g", "e", "r", "-", "s", "o", "n", "g", "w", "r", "i", "t", "e", "r", " ", "k", "n", "o", "w", "n", " ", "f", "o", "r", " ", "n", "a", "r", "r", "a", "t", "i", "v", "e", " ", "s", "o", "n", "g", "s", " ", "a", "b", "o", "u", "t", " ", "h", "e", "r", " ", "p", "e", "r", "s", "o", "n", "a", "l", " ", "l", "i", "f", "e", ".">>,
     website |-> <<"h", "t", "t", "p", "s", ":", "/", "/", "w", "w", "w", ".", "t", "a", "y", "l", "o", "r", "s", "w", "i", "f", "t", ".", "c", "o", "m">>,
     social_media |-> "object"]>>

\* POST /seed: no requireAuth in front of it
SeedResult(user) ==
  [Reply(500, "Failed to seed database", <<>>, <<>>)
     EXCEPT !.message = ErrorMessage,
            !.artists = [x \in nextId..(nextId + Len(sampleArtists) - 1) |->
                           Created(sampleArtists[x - nextId + 1], x)],
            !.albums = Empty,
            !.songs = Empty,
            !.playlists = Empty,
            !.nextId = nextId + Len(sampleArtists)]

(***************************************************************************)
(* Requests.                                                               *)
(***************************************************************************)
a == <<"a">>
A == <<"A">>
aPlus == <<"a", "+">>
Rock == <<"R", "o", "c", "k">>
UK == <<"U", "K">>
X == <<"X">>

Names == {a, A, aPlus}

\* identifier strings a request may carry
HexIds == {Hex(n, up) : n \in Oids \cup {MissingOid}, up \in BOOLEAN}
IdParams == HexIds \cup {BadId}

\* the :id a client copies from a response (lower-case), a well-formed id of
\* no document, and a malformed one
PathIds == {Hex(n, FALSE) : n \in Oids \cup {MissingOid}} \cup {BadId}

Array(items) == [arr |-> TRUE, items |-> items]
NotAnArray == [arr |-> FALSE, items |-> <<>>]

ArtistBody(name) ==
  [name |-> name, genre |-> Rock, country |-> UK, formed_year |-> RawNum(2000),
   members |-> Array(<<X>>), biography |-> UNDEF, website |-> UNDEF,
   social_media |-> "undefined"]

ArtistBodies ==
  {ArtistBody(n) : n \in Names}
  \cup {[ArtistBody(a) EXCEPT !.name = UNDEF],
        [ArtistBody(a) EXCEPT !.formed_year = RawText],
        [ArtistBody(a) EXCEPT !.members = Array(<<X, UNDEF>>)],
        [ArtistBody(a) EXCEPT !.name = UNDEF, !.formed_year = RawText],
        [ArtistBody(a) EXCEPT !.name = UNDEF, !.members = Array(<<X, UNDEF>>)]}

AlbumBody(title, artist_id) ==
  [title |-> title, artist_id |-> artist_id, release_date |-> RawNum(2020),
   genre |-> Rock, track_count |-> RawNum(10), duration |-> RawNum(40),
   record_label |-> UNDEF, cover_image_url |-> UNDEF]

AlbumBodies ==
  {AlbumBody(t, i) : t \in Names, i \in HexIds}
  \cup {AlbumBody(a, BadId), AlbumBody(a, NoId), AlbumBody(UNDEF, BadId),
        AlbumBody(UNDEF, ObjectIdToString(MissingOid))}

SongBody(title, album_id, artist_id) ==
  [title |-> title, album_id |-> album_id, artist_id |-> artist_id,
   duration |-> RawNum(210), track_number |-> RawNum(1), genre |-> Rock,
   lyrics |-> UNDEF, audio_url |-> UNDEF, featured_artists |-> NotAnArray]

SongBodies ==
  {SongBody(a, i, j) : i, j \in {Hex(n, FALSE) : n \in Oids}}
  \cup {SongBody(a, BadId, BadId),
        SongBody(UNDEF, ObjectIdToString(MissingOid), ObjectIdToString(MissingOid))}

\* pages and limits of list requests
MaxPage == 5

ListPages == {RawNum(p) : p \in 1..MaxPage} \cup {RawAbsent}

ListLimits ==
  {RawNum(l) : l \in {0 - 1, 1, 2, MaxLimit, MaxLimit + 1, MaxLimit + 50}}
  \cup {RawAbsent, RawText}

PlaylistBody(name, songIds) ==
  [name |-> name, creator_name |-> X, description |-> UNDEF, songs |-> songIds,
   tags |-> NotAnArray, is_public |-> TRUE, cover_image_url |-> UNDEF]

PlaylistBodies ==
  {PlaylistBody(a, Array(<<>>)), PlaylistBody(UNDEF, Array(<<>>)),
   PlaylistBody(a, Array(<<BadId>>))}

(***************************************************************************)
(* The server after start-up: an empty store, demo mode off.               *)
(***************************************************************************)
\* the server after start-up if auth.js declared isDemoMode = true
InitDemoModeOn ==
  /\ artists = Empty
  /\ albums = Empty
  /\ songs = Empty
  /\ playlists = Empty
  /\ isDemoMode = TRUE
  /\ nextId = 1
  /\ removed = {}
  /\ NODE_ENV \in Environments
  /\ _db = TRUE
  /\ phase = "listening"
  /\ handled = 0
  /\ reqs = <<>>

\* the process once server.js has run: the initDb callback found no error and
\* called app.listen; no request is in flight
Running ==
  /\ NODE_ENV \in Environments
  /\ _db = TRUE
  /\ phase = "listening"
  /\ handled = 0
  /\ reqs = <<>>

Init ==
  /\ artists = Empty
  /\ albums = Empty
  /\ songs = Empty
  /\ playlists = Empty
  /\ isDemoMode = FALSE
  /\ nextId = 1
  /\ removed = {}
  /\ Running

(***************************************************************************)
(* One action per request.  A request that inserts takes the next          *)
(* ObjectId; the model stops inserting when MaxIds of them are used.       *)
(***************************************************************************)
\* the DELETE requests that removed a document so far: removed with this
\* request when it answers 200
Removed(coll, id, r) ==
  IF r.status = 200 THEN removed \cup {[coll |-> coll, id |-> id]} ELSE removed

Seed(user) ==
  /\ nextId + Len(sampleArtists) - 1 <= MaxIds
  /\ Apply(SeedResult(user))
  /\ UNCHANGED <<isDemoMode, removed, process>>

PostArtist(user, b) ==
  /\ nextId <= MaxIds
  /\ Apply(PostArtistResult(user, b))
  /\ UNCHANGED <<isDemoMode, removed, process>>

PutArtist(user, id, b) ==
  /\ Apply(PutArtistResult(user, id, b))
  /\ UNCHANGED <<isDemoMode, removed, process>>

DeleteArtist(user, id) ==
  /\ Apply(DeleteArtistResult(user, id))
  /\ removed' = Removed("artists", id, DeleteArtistResult(user, id))
  /\ UNCHANGED <<isDemoMode, process>>

PostAlbum(user, b) ==
  /\ nextId <= MaxIds
  /\ Apply(PostAlbumResult(user, b))
  /\ UNCHANGED <<isDemoMode, removed, process>>

PutAlbum(user, id, b) ==
  /\ Apply(PutAlbumResult(user, id, b))
  /\ UNCHANGED <<isDemoMode, removed, process>>

DeleteAlbum(user, id) ==
  /\ Apply(DeleteAlbumResult(user, id))
  /\ removed' = Removed("albums", id, DeleteAlbumResult(user, id))
  /\ UNCHANGED <<isDemoMode, process>>

PostSong(user, b) ==
  /\ nextId <= MaxIds
  /\ Apply(PostSongResult(user, b))
  /\ UNCHANGED <<isDemoMode, removed, process>>

PutSong(user, id, b) ==
  /\ Apply(PutSongResult(user, id, b))
  /\ UNCHANGED <<isDemoMode, removed, process>>

DeleteSong(user, id) ==
  /\ Apply(DeleteSongResult(user, id))
  /\ removed' = Removed("songs", id, DeleteSongResult(user, id))
  /\ UNCHANGED <<isDemoMode, process>>

PostPlaylist(user, b) ==
  /\ nextId <= MaxIds
  /\ Apply(PostPlaylistResult(user, b))
  /\ UNCHANGED <<isDemoMode, removed, process>>

PutPlaylist(user, id, b) ==
  /\ Apply(PutPlaylistResult(user, id, b))
  /\ UNCHANGED <<isDemoMode, removed, process>>

AddSongToPlaylist(user, id, songId) ==
  /\ Apply(AddSongToPlaylistResult(user, id, songId))
  /\ UNCHANGED <<isDemoMode, removed, process>>

RemoveSongFromPlaylist(user, id, songId) ==
  /\ Apply(RemoveSongFromPlaylistResult(user, id, songId))
  /\ UNCHANGED <<isDemoMode, removed, process>>

DeletePlaylist(user, id) ==
  /\ Apply(DeletePlaylistResult(user, id))
  /\ removed' = Removed("playlists", id, DeletePlaylistResult(user, id))
  /\ UNCHANGED <<isDemoMode, process>>

GetPlaylistSongs(id) ==
  /\ Apply(GetPlaylistSongsResult(id))
  /\ UNCHANGED <<isDemoMode, removed, process>>

GetAlbumsByArtist(artistId) ==
  /\ Apply(GetAlbumsByArtistResult(artistId))
  /\ UNCHANGED <<isDemoMode, removed, process>>

GetSongsByAlbum(albumId) ==
  /\ Apply(GetSongsByAlbumResult(albumId))
  /\ UNCHANGED <<isDemoMode, removed, process>>

GetSongsByArtist(artistId) ==
  /\ Apply(GetSongsByArtistResult(artistId))
  /\ UNCHANGED <<isDemoMode, removed, process>>

GetArtists(rawPage, rawLimit) ==
  /\ Apply(GetArtistsResult(rawPage, rawLimit))
  /\ UNCHANGED <<isDemoMode, removed, process>>

GetAlbums(rawPage, rawLimit) ==
  /\ Apply(GetAlbumsResult(rawPage, rawLimit))
  /\ UNCHANGED <<isDemoMode, removed, process>>

GetSongs(rawPage, rawLimit) ==
  /\ Apply(GetSongsResult(rawPage, rawLimit))
  /\ UNCHANGED <<isDemoMode, removed, process>>

GetPlaylists(rawPage, rawLimit) ==
  /\ Apply(GetPlaylistsResult(rawPage, rawLimit))
  /\ UNCHANGED <<isDemoMode, removed, process>>

Next ==
  \/ \E user \in BOOLEAN, enable \in {"null", "true", "false"} : ToggleDemo(user, enable)
  \/ \E user \in BOOLEAN : Seed(user)
  \/ \E user \in BOOLEAN, b \in ArtistBodies : PostArtist(user, b)
  \/ \E user \in BOOLEAN, id \in PathIds, b \in ArtistBodies : PutArtist(user, id, b)
  \/ \E user \in BOOLEAN, id \in IdParams : DeleteArtist(user, id)
  \/ \E user \in BOOLEAN, b \in AlbumBodies : PostAlbum(user, b)
  \/ \E user \in BOOLEAN, id \in PathIds, b \in AlbumBodies : PutAlbum(user, id, b)
  \/ \E user \in BOOLEAN, id \in PathIds : DeleteAlbum(user, id)
  \/ \E user \in BOOLEAN, b \in SongBodies : PostSong(user, b)
  \/ \E user \in BOOLEAN, id \in PathIds, b \in SongBodies : PutSong(user, id, b)
  \/ \E user \in BOOLEAN, id \in PathIds : DeleteSong(user, id)
  \/ \E user \in BOOLEAN, b \in PlaylistBodies : PostPlaylist(user, b)
  \/ \E user \in BOOLEAN, id \in PathIds, b \in PlaylistBodies : PutPlaylist(user, id, b)
  \/ \E user \in BOOLEAN, id \in PathIds, songId \in IdParams :
       AddSongToPlaylist(user, id, songId)
  \/ \E user \in BOOLEAN, id \in PathIds, songId \in IdParams :
       RemoveSongFromPlaylist(user, id, songId)
  \/ \E user \in BOOLEAN, id \in PathIds : DeletePlaylist(user, id)
  \/ \E id \in PathIds : GetPlaylistSongs(id)
  \/ \E artistId \in IdParams : GetAlbumsByArtist(artistId)
  \/ \E albumId \in IdParams : GetSongsByAlbum(albumId)
  \/ \E artistId \in IdParams : GetSongsByArtist(artistId)
  \/ \E rawPage \in ListPages, rawLimit \in ListLimits : GetArtists(rawPage, rawLimit)
  \/ \E rawPage \in ListPages, rawLimit \in ListLimits : GetAlbums(rawPage, rawLimit)
  \/ \E rawPage \in ListPages, rawLimit \in ListLimits : GetSongs(rawPage, rawLimit)
  \/ \E rawPage \in ListPages, rawLimit \in ListLimits : GetPlaylists(rawPage, rawLimit)

Spec == Init /\ [][Next]_vars


(***************************************************************************)
(* The playlist routes over a catalog.  The store holds one artist, one    *)
(* album of that artist and NumSongs songs of that album, as POST /artists,*)
(* POST /albums and POST /songs leave them; the requests are the playlist  *)
(* requests and DELETE /songs/:id.                                         *)
(***************************************************************************)
NumSongs == 2

CatalogArtist == MaxIds + 1
CatalogAlbum == MaxIds + 2
CatalogSongs == {MaxIds + 2 + n : n \in 1..NumSongs}

CatalogSong(n) ==
  sanitizeSong([SongBody([i \in 1..n |-> "a"],
                         ObjectIdToString(CatalogAlbum),
                         ObjectIdToString(CatalogArtist))
                 EXCEPT !.track_number = RawNum(n)])

\* the identifier strings a playlist request carries for a song: the id as
\* the API prints it, the same id typed in upper case (first song only), a
\* well-formed id of no song, a malformed id
SongIdParams ==
  {ObjectIdToString(g) : g \in CatalogSongs}
  \cup {Hex(MaxIds + 3, TRUE), ObjectIdToString(MissingOid), BadId}

SongIdLists ==
  {<<>>} \cup {<<x>> : x \in SongIdParams}
         \cup {<<x, y>> : x, y \in SongIdParams}

CatalogPlaylistBodies ==
  {PlaylistBody(a, Array(l)) : l \in SongIdLists}
  \cup {PlaylistBody(A, NotAnArray), PlaylistBody(UNDEF, Array(<<>>))}

InitCatalog ==
  /\ artists = Put(Empty, CatalogArtist, Created(sanitizeArtist(ArtistBody(a)), 0))
  /\ albums = Put(Empty, CatalogAlbum,
                  Created(sanitizeAlbum(AlbumBody(a, ObjectIdToString(CatalogArtist))), 0))
  /\ songs = [g \in CatalogSongs |-> Created(CatalogSong(g - (MaxIds + 2)), 0)]
  /\ playlists = Empty
  /\ isDemoMode = FALSE
  /\ nextId = 1
  /\ removed = {}
  /\ Running

NextCatalog ==
  \/ \E user \in BOOLEAN, b \in CatalogPlaylistBodies : PostPlaylist(user, b)
  \/ \E user \in BOOLEAN, id \in PathIds, b \in CatalogPlaylistBodies :
       PutPlaylist(user, id, b)
  \/ \E user \in BOOLEAN, id \in PathIds, songId \in SongIdParams :
       AddSongToPlaylist(user, id, songId)
  \/ \E user \in BOOLEAN, id \in PathIds, songId \in SongIdParams :
       RemoveSongFromPlaylist(user, id, songId)
  \/ \E user \in BOOLEAN, id \in PathIds : DeletePlaylist(user, id)
  \/ \E user \in BOOLEAN, g \in CatalogSongs : DeleteSong(user, ObjectIdToString(g))
  \/ \E id \in PathIds : GetPlaylistSongs(id)

SpecCatalog == InitCatalog /\ [][NextCatalog]_vars

(***************************************************************************)
(* Several playlists over the catalog.  The requests create playlists of   *)
(* two names with no songs, then add songs to them and remove songs from   *)
(* them.                                                                   *)
(***************************************************************************)
EmptyPlaylistBodies == {PlaylistBody(n, Array(<<>>)) : n \in {a, X}}

NextPlaylists ==
  \/ \E user \in BOOLEAN, b \in EmptyPlaylistBodies : PostPlaylist(user, b)
  \/ \E user \in BOOLEAN, id \in PathIds, songId \in SongIdParams :
       AddSongToPlaylist(user, id, songId)
  \/ \E user \in BOOLEAN, id \in PathIds, songId \in SongIdParams :
       RemoveSongFromPlaylist(user, id, songId)

SpecPlaylists == InitCatalog /\ [][NextPlaylists]_vars

(***************************************************************************)
(* The numeric fields over the catalog.  The requests are the creates and  *)
(* the update of the catalog's first song, with bodies that are valid but  *)
(* for the numeric fields, which take the values at and next to the limits *)
(* of validateArtist, validateAlbum and validateSong, a text that is no    *)
(* number, and no value.                                                   *)
(***************************************************************************)
NotNumbers == {RawText, RawAbsent}

FormedYears == {RawNum(y) : y \in {1899, 1900, CurrentYear, CurrentYear + 1}} \cup NotNumbers
TrackCounts == {RawNum(c) : c \in {0, 1, 200, 201}} \cup NotNumbers
AlbumDurations == {RawNum(d) : d \in {0, 1, 600, 601}} \cup NotNumbers
SongDurations == {RawNum(d) : d \in {0, 1, 3600, 3601}} \cup NotNumbers
TrackNumbers == {RawNum(n) : n \in {0, 1, 200, 201}} \cup NotNumbers

FieldArtistBodies ==
  {[ArtistBody(X) EXCEPT !.formed_year = y] : y \in FormedYears}

FieldAlbumBodies ==
  {[AlbumBody(X, ObjectIdToString(CatalogArtist))
      EXCEPT !.track_count = c, !.duration = d] :
     c \in TrackCounts, d \in AlbumDurations}

FieldSongBodies ==
  {[SongBody(X, ObjectIdToString(CatalogAlbum), ObjectIdToString(CatalogArtist))
      EXCEPT !.duration = d, !.track_number = n] :
     d \in SongDurations, n \in TrackNumbers}

FirstCatalogSong == MaxIds + 3

NextFields ==
  \/ \E b \in FieldArtistBodies : PostArtist(TRUE, b)
  \/ \E b \in FieldAlbumBodies : PostAlbum(TRUE, b)
  \/ \E b \in FieldSongBodies : PostSong(TRUE, b)
  \/ \E b \in FieldSongBodies : PutSong(TRUE, ObjectIdToString(FirstCatalogSong), b)

SpecFields == InitCatalog /\ [][NextFields]_vars

(***************************************************************************)
(* Start-up.  server.js calls db.initDb with a callback; initDb connects,  *)
(* and in the same turn either sets _db and calls the callback without an  *)
(* error, or calls it with the error.  The callback exits the process on   *)
(* an error and calls app.listen otherwise.  Requests are dispatched to    *)
(* the handlers only while the server listens.                             *)
(***************************************************************************)
\* requests served in one run of the start-up model
MaxHandled == 4

\* the initDb callback that calls app.listen whatever initDb reports
initDbCallbackListens(err) == "listening"

\* the initDb callback of server.js
initDbCallback(err) == IF err THEN "exited" ELSE "listening"

\* getDb() in front of a handler's store accesses: it throws while _db is
\* unset and the handler's catch block answers 500
getDb(r) == IF _db THEN r ELSE InternalError

InitStartup ==
  /\ artists = Empty
  /\ albums = Empty
  /\ songs = Empty
  /\ playlists = Empty
  /\ isDemoMode = FALSE
  /\ nextId = 1
  /\ removed = {}
  /\ NODE_ENV \in Environments
  /\ _db = FALSE
  /\ phase = "starting"
  /\ handled = 0
  /\ reqs = <<>>

\* MongoClient.connect resolves
ConnectSucceeds ==
  /\ phase = "starting"
  /\ ~_db
  /\ _db' = TRUE
  /\ phase' = initDbCallback(FALSE)
  /\ UNCHANGED <<store, isDemoMode, nextId, removed, NODE_ENV, handled, reqs>>

\* MongoClient.connect rejects
ConnectFails ==
  /\ phase = "starting"
  /\ ~_db
  /\ phase' = initDbCallback(TRUE)
  /\ UNCHANGED <<store, isDemoMode, nextId, removed, NODE_ENV, _db, handled, reqs>>

\* a request arrives at the listening server and its handler runs
Serve(r) ==
  /\ phase = "listening"
  /\ handled < MaxHandled
  /\ nextId <= MaxIds
  /\ Apply(getDb(r))
  /\ handled' = handled + 1
  /\ UNCHANGED <<isDemoMode, removed, NODE_ENV, _db, phase, reqs>>

\* POST /auth/toggle-demo arrives at the listening server
ServeToggleDemo(enable) ==
  /\ phase = "listening"
  /\ handled < MaxHandled
  /\ isDemoMode' = toggleDemoMode(enable)
  /\ handled' = handled + 1
  /\ UNCHANGED <<store, nextId, removed, NODE_ENV, _db, phase, reqs>>

NextStartup ==
  \/ ConnectSucceeds
  \/ ConnectFails
  \/ \E enable \in {"null", "true", "false"} : ServeToggleDemo(enable)
  \/ \E user \in BOOLEAN, b \in ArtistBodies : Serve(PostArtistResult(user, b))
  \/ \E user \in BOOLEAN, id \in PathIds, b \in ArtistBodies :
       Serve(PutArtistResult(user, id, b))
  \/ \E user \in BOOLEAN, id \in PathIds : Serve(DeleteArtistResult(user, id))
  \/ \E rawPage \in ListPages, rawLimit \in ListLimits :
       Serve(GetArtistsResult(rawPage, rawLimit))

SpecStartup == InitStartup /\ [][NextStartup]_vars

(***************************************************************************)
(* Concurrent requests.  A handler runs up to its first await and then     *)
(* from one await to the next; the store operations of requests in flight  *)
(* interleave in any order.  reqs[p] is the request p: kind names its      *)
(* handler, pc the store operation it performs next, id and songId its     *)
(* path parameters, data its sanitized body, inserted the insertedId it    *)
(* got, and status the response it sent (0: none yet).  The requests come  *)
(* from an authenticated client and carry valid identifiers and bodies.    *)
(* The store holds the catalog, one more artist that has no album, and an  *)
(* empty playlist.                                                         *)
(***************************************************************************)
\* requests in flight at the same time
NumRequests == 2

LoneArtist == MaxIds + NumSongs + 3
RacePlaylist == MaxIds + NumSongs + 4

NoData == [none |-> TRUE]

Request(kind, id, songId, data) ==
  [kind |-> kind, pc |-> "start", id |-> id, songId |-> songId, data |-> data,
   inserted |-> MissingOid, status |-> 0]

\* the requests a client may send while another is in flight
RaceRequests ==
  {Request("POST /artists", NoId, NoId, sanitizeArtist(ArtistBody(X))),
   Request("DELETE /artists/:id", ObjectIdToString(LoneArtist), NoId, NoData),
   Request("POST /albums", NoId, NoId,
           sanitizeAlbum(AlbumBody(X, ObjectIdToString(LoneArtist)))),
   Request("PUT /albums/:id", ObjectIdToString(CatalogAlbum), NoId,
           prepareAlbumUpdate(AlbumBody(X, ObjectIdToString(LoneArtist)))),
   Request("PUT /playlists/:id/songs/:songId", ObjectIdToString(RacePlaylist),
           ObjectIdToString(FirstCatalogSong), NoData)}

InitRace ==
  /\ artists = Put(Put(Empty, CatalogArtist, Created(sanitizeArtist(ArtistBody(a)), 0)),
                   LoneArtist, Created(sanitizeArtist(ArtistBody(Rock)), 0))
  /\ albums = Put(Empty, CatalogAlbum,
                  Created(sanitizeAlbum(AlbumBody(a, ObjectIdToString(CatalogArtist))), 0))
  /\ songs = [g \in CatalogSongs |-> Created(CatalogSong(g - (MaxIds + 2)), 0)]
  /\ playlists = Put(Empty, RacePlaylist,
                     Created(sanitizePlaylist(PlaylistBody(a, Array(<<>>))), 0))
  /\ isDemoMode = FALSE
  /\ nextId = 1
  /\ removed = {}
  /\ NODE_ENV \in Environments
  /\ _db = TRUE
  /\ phase = "listening"
  /\ handled = 0
  /\ reqs \in [1..NumRequests -> RaceRequests]

\* request p goes on to its next store operation
Goto(p, pc) == reqs' = [reqs EXCEPT ![p].pc = pc]

\* request p sends its response
Respond(p, status) == reqs' = [reqs EXCEPT ![p].pc = "done", ![p].status = status]

\* request p of the given kind is about to perform the store operation pc
At(p, kind, pc) == reqs[p].kind = kind /\ reqs[p].pc = pc

\* what a step of a request in flight leaves alone besides the store
RaceFrame == UNCHANGED <<isDemoMode, removed, NODE_ENV, _db, phase, handled>>

\* POST /artists: findOne({ name: new RegExp(...) })
PostArtistFindByName(p) ==
  /\ At(p, "POST /artists", "start")
  /\ IF artistNameTaken(reqs[p].data.name)
       THEN Respond(p, 409)
       ELSE Goto(p, "insertOne")
  /\ UNCHANGED <<store, nextId>>
  /\ RaceFrame

\* POST /artists over a collection with a unique index on name, whose
\* duplicate-key refusal is answered like the pre-check's: insertOne stores
\* nothing when the name is taken by then
PostArtistInsertOneUniqueIndex(p) ==
  /\ At(p, "POST /artists", "insertOne")
  /\ IF artistNameTaken(reqs[p].data.name)
       THEN /\ Respond(p, 409)
            /\ UNCHANGED <<store, nextId>>
       ELSE /\ artists' = Put(artists, nextId, Created(reqs[p].data, nextId))
            /\ nextId' = nextId + 1
            /\ reqs' = [reqs EXCEPT ![p].pc = "findOne", ![p].inserted = nextId]
            /\ UNCHANGED <<albums, songs, playlists>>
  /\ RaceFrame

\* POST /artists: insertOne(artistData)
PostArtistInsertOne(p) ==
  /\ At(p, "POST /artists", "insertOne")
  /\ artists' = Put(artists, nextId, Created(reqs[p].data, nextId))
  /\ nextId' = nextId + 1
  /\ reqs' = [reqs EXCEPT ![p].pc = "findOne", ![p].inserted = nextId]
  /\ UNCHANGED <<albums, songs, playlists>>
  /\ RaceFrame

\* POST /artists: findOne({ _id: result.insertedId }) and the 201 response
PostArtistFindById(p) ==
  /\ At(p, "POST /artists", "findOne")
  /\ Respond(p, 201)
  /\ UNCHANGED <<store, nextId>>
  /\ RaceFrame

\* DELETE /artists/:id: countDocuments({ artist_id }) on albums
DeleteArtistCountAlbums(p) ==
  /\ At(p, "DELETE /artists/:id", "start")
  /\ IF albumsCount(reqs[p].id) > 0
       THEN Respond(p, 400)
       ELSE Goto(p, "deleteOne")
  /\ UNCHANGED <<store, nextId>>
  /\ RaceFrame

\* DELETE /artists/:id: deleteOne and the 200 or 404 response
DeleteArtistDeleteOne(p) ==
  /\ At(p, "DELETE /artists/:id", "deleteOne")
  /\ artists' = Remove(artists, ObjectId(reqs[p].id))
  /\ Respond(p, IF ObjectId(reqs[p].id) \in DOMAIN artists THEN 200 ELSE 404)
  /\ UNCHANGED <<albums, songs, playlists, nextId>>
  /\ RaceFrame

\* POST /albums: findOne on artists
PostAlbumFindArtist(p) ==
  /\ At(p, "POST /albums", "start")
  /\ IF ObjectId(reqs[p].data.artist_id) \notin DOMAIN artists
       THEN Respond(p, 400)
       ELSE Goto(p, "findOne album")
  /\ UNCHANGED <<store, nextId>>
  /\ RaceFrame

\* POST /albums: findOne({ title: new RegExp(...), artist_id })
PostAlbumFindByTitle(p) ==
  /\ At(p, "POST /albums", "findOne album")
  /\ IF albumTitleTaken(reqs[p].data.title, reqs[p].data.artist_id)
       THEN Respond(p, 409)
       ELSE Goto(p, "insertOne")
  /\ UNCHANGED <<store, nextId>>
  /\ RaceFrame

\* POST /albums: insertOne(albumData)
PostAlbumInsertOne(p) ==
  /\ At(p, "POST /albums", "insertOne")
  /\ albums' = Put(albums, nextId, Created(reqs[p].data, nextId))
  /\ nextId' = nextId + 1
  /\ reqs' = [reqs EXCEPT ![p].pc = "findOne", ![p].inserted = nextId]
  /\ UNCHANGED <<artists, songs, playlists>>
  /\ RaceFrame

\* POST /albums: findOne({ _id: result.insertedId }) and the 201 response
PostAlbumFindById(p) ==
  /\ At(p, "POST /albums", "findOne")
  /\ Respond(p, 201)
  /\ UNCHANGED <<store, nextId>>
  /\ RaceFrame

\* PUT /albums/:id: findOne on artists
PutAlbumFindArtist(p) ==
  /\ At(p, "PUT /albums/:id", "start")
  /\ IF ObjectId(reqs[p].data.artist_id) \notin DOMAIN artists
       THEN Respond(p, 400)
       ELSE Goto(p, "updateOne")
  /\ UNCHANGED <<store, nextId>>
  /\ RaceFrame

\* PUT /albums/:id: updateOne with $set and the 204 or 404 response
PutAlbumUpdateOne(p) ==
  /\ At(p, "PUT /albums/:id", "updateOne")
  /\ IF ObjectId(reqs[p].id) \in DOMAIN albums
       THEN /\ albums' = updateOne(albums, ObjectId(reqs[p].id), reqs[p].data)
            /\ Respond(p, 204)
       ELSE /\ albums' = albums
            /\ Respond(p, 404)
  /\ UNCHANGED <<artists, songs, playlists, nextId>>
  /\ RaceFrame

\* PUT /playlists/:id/songs/:songId: findOne on songs
AddSongFindSong(p) ==
  /\ At(p, "PUT /playlists/:id/songs/:songId", "start")
  /\ IF ObjectId(reqs[p].songId) \notin DOMAIN songs
       THEN Respond(p, 404)
       ELSE Goto(p, "findOne playlist")
  /\ UNCHANGED <<store, nextId>>
  /\ RaceFrame

\* PUT /playlists/:id/songs/:songId: findOne on playlists and the includes
\* test on the document read
AddSongFindPlaylist(p) ==
  /\ At(p, "PUT /playlists/:id/songs/:songId", "findOne playlist")
  /\ IF ObjectId(reqs[p].id) \notin DOMAIN playlists
       THEN Respond(p, 404)
       ELSE IF songsIncludes(playlists[ObjectId(reqs[p].id)].songs, reqs[p].songId)
         THEN Respond(p, 409)
         ELSE Goto(p, "updateOne")
  /\ UNCHANGED <<store, nextId>>
  /\ RaceFrame

\* PUT /playlists/:id/songs/:songId: updateOne with $push and the 200 response
AddSongPush(p) ==
  /\ At(p, "PUT /playlists/:id/songs/:songId", "updateOne")
  /\ playlists' =
       IF ObjectId(reqs[p].id) \in DOMAIN playlists
         THEN [playlists EXCEPT ![ObjectId(reqs[p].id)].songs =
                 Append(playlists[ObjectId(reqs[p].id)].songs, reqs[p].songId)]
         ELSE playlists
  /\ Respond(p, 200)
  /\ UNCHANGED <<artists, albums, songs, nextId>>
  /\ RaceFrame

\* the store operation request p awaits rejects (the connection to the
\* store is lost, the operation times out): it has no effect, the handler's
\* catch block answers 500
StoreRejects(p) ==
  /\ reqs[p].pc # "done"
  /\ Respond(p, 500)
  /\ UNCHANGED <<store, nextId>>
  /\ RaceFrame

NextRace ==
  \/ \E p \in 1..NumRequests : StoreRejects(p)
  \/ \E p \in 1..NumRequests : PostArtistFindByName(p)
  \/ \E p \in 1..NumRequests : PostArtistInsertOne(p)
  \/ \E p \in 1..NumRequests : PostArtistFindById(p)
  \/ \E p \in 1..NumRequests : DeleteArtistCountAlbums(p)
  \/ \E p \in 1..NumRequests : DeleteArtistDeleteOne(p)
  \/ \E p \in 1..NumRequests : PostAlbumFindArtist(p)
  \/ \E p \in 1..NumRequests : PostAlbumFindByTitle(p)
  \/ \E p \in 1..NumRequests : PostAlbumInsertOne(p)
  \/ \E p \in 1..NumRequests : PostAlbumFindById(p)
  \/ \E p \in 1..NumRequests : PutAlbumFindArtist(p)
  \/ \E p \in 1..NumRequests : PutAlbumUpdateOne(p)
  \/ \E p \in 1..NumRequests : AddSongFindSong(p)
  \/ \E p \in 1..NumRequests : AddSongFindPlaylist(p)
  \/ \E p \in 1..NumRequests : AddSongPush(p)

SpecRace == InitRace /\ [][NextRace]_vars

(***************************************************************************)
(* Properties.  A handler's result is a function of the store and the      *)
(* request, so a statement about every request in every reachable store    *)
(* is an invariant that quantifies over the requests.                      *)
(***************************************************************************)
\* the result leaves the store as it is
Untouched(r) ==
  /\ r.artists = artists
  /\ r.albums = albums
  /\ r.songs = songs
  /\ r.playlists = playlists

Denied(r) ==
  /\ r.status = 401
  /\ r.error = "Authentication required"
  /\ Untouched(r)

\* the identifier string s identifies the document with ObjectId oid
Identifies(s, oid) == ObjectIdIsValid(s) /\ ObjectId(s) = oid

\* C1: DELETE /artists/:id, for an artist that exists and has at least one
\* album whose artist_id is that artist's id, answers 400 and leaves the
\* artist and its albums in the store.
C1_DeleteArtistGuard ==
  \A id \in IdParams :
    (/\ ObjectIdIsValid(id)
     /\ ObjectId(id) \in DOMAIN artists
     /\ \E x \in DOMAIN albums : Identifies(albums[x].artist_id, ObjectId(id)))
    => LET r == DeleteArtistResult(TRUE, id)
       IN r.status = 400 /\ Untouched(r)

\* C2: starting from the empty store, after any sequence of artist and album
\* create, update and delete requests, the artist_id of every stored album
\* identifies an artist that is in the store.
C2_AlbumArtistExists ==
  \A x \in DOMAIN albums :
    \E y \in DOMAIN artists : Identifies(albums[x].artist_id, y)

\* C3: no two stored artists have names that are equal ignoring letter case,
\* after any sequence of POST, PUT and DELETE requests on /artists.
C3_ArtistNamesUnique ==
  \A x, y \in DOMAIN artists :
    x # y => ~SameNameIgnoringCase(artists[x].name, artists[y].name)

\* C4: POST /albums with a title equal, ignoring case, to the title of a
\* stored album with the same artist_id answers 409 and inserts nothing, for
\* every title that passes validation; a title that matches no stored title
\* of that artist, ignoring case, is never rejected as a duplicate.
C4_AlbumDuplicateGuard ==
  \A b \in AlbumBodies :
    LET data == sanitizeAlbum(b)
        r == PostAlbumResult(TRUE, b)
        same == \E x \in DOMAIN albums :
                  /\ albums[x].artist_id = data.artist_id
                  /\ SameNameIgnoringCase(albums[x].title, data.title)
    IN (validateAlbum(data) = <<>> /\ ObjectId(data.artist_id) \in DOMAIN artists)
       => /\ same => (r.status = 409 /\ Untouched(r))
          /\ ~same => r.status # 409

\* C5: with demo mode off, every POST, PUT and DELETE request on /artists,
\* /albums, /songs and /playlists that carries no authenticated user is
\* answered 401 "Authentication required" and leaves the store unchanged,
\* whatever its id, its body and the store are.
C5_AuthenticationFirst ==
  ~isDemoMode =>
    /\ \A b \in ArtistBodies : Denied(PostArtistResult(FALSE, b))
    /\ \A id \in IdParams, b \in ArtistBodies : Denied(PutArtistResult(FALSE, id, b))
    /\ \A id \in IdParams : Denied(DeleteArtistResult(FALSE, id))
    /\ \A b \in AlbumBodies : Denied(PostAlbumResult(FALSE, b))
    /\ \A id \in IdParams, b \in AlbumBodies : Denied(PutAlbumResult(FALSE, id, b))
    /\ \A id \in IdParams : Denied(DeleteAlbumResult(FALSE, id))
    /\ \A b \in SongBodies : Denied(PostSongResult(FALSE, b))
    /\ \A id \in IdParams, b \in SongBodies : Denied(PutSongResult(FALSE, id, b))
    /\ \A id \in IdParams : Denied(DeleteSongResult(FALSE, id))
    /\ \A b \in PlaylistBodies : Denied(PostPlaylistResult(FALSE, b))
    /\ \A id \in IdParams, b \in PlaylistBodies : Denied(PutPlaylistResult(FALSE, id, b))
    /\ \A id, songId \in IdParams :
         /\ Denied(AddSongToPlaylistResult(FALSE, id, songId))
         /\ Denied(RemoveSongFromPlaylistResult(FALSE, id, songId))
    /\ \A id \in IdParams : Denied(DeletePlaylistResult(FALSE, id))

\* demo mode is off, the store holds an artist and an album, and requests
\* that an authenticated user would have carried out (an album delete, an
\* artist update) are denied to a request without one
C5_DeniedWhereAllowed ==
  /\ ~isDemoMode
  /\ \E id \in PathIds :
       /\ DeleteAlbumResult(TRUE, id).status = 200
       /\ Denied(DeleteAlbumResult(FALSE, id))
  /\ \E id \in PathIds, b \in ArtistBodies :
       /\ PutArtistResult(TRUE, id, b).status = 204
       /\ Denied(PutArtistResult(FALSE, id, b))

\* C6: all POST, PUT and DELETE operations require authentication: with demo
\* mode off, no request made without an authenticated user changes the
\* stored data or the demo-mode flag.
C6_NoChangeWithoutUser ==
  [][(/\ ~isDemoMode
      /\ \/ \E enable \in {"null", "true", "false"} : ToggleDemo(FALSE, enable)
         \/ Seed(FALSE)
         \/ \E b \in ArtistBodies : PostArtist(FALSE, b)
         \/ \E id \in IdParams, b \in ArtistBodies : PutArtist(FALSE, id, b)
         \/ \E id \in IdParams : DeleteArtist(FALSE, id)
         \/ \E b \in AlbumBodies : PostAlbum(FALSE, b)
         \/ \E id \in IdParams, b \in AlbumBodies : PutAlbum(FALSE, id, b)
         \/ \E id \in IdParams : DeleteAlbum(FALSE, id)
         \/ \E b \in SongBodies : PostSong(FALSE, b)
         \/ \E id \in IdParams, b \in SongBodies : PutSong(FALSE, id, b)
         \/ \E id \in IdParams : DeleteSong(FALSE, id)
         \/ \E b \in PlaylistBodies : PostPlaylist(FALSE, b)
         \/ \E id \in IdParams, b \in PlaylistBodies : PutPlaylist(FALSE, id, b)
         \/ \E id, songId \in IdParams : AddSongToPlaylist(FALSE, id, songId)
         \/ \E id, songId \in IdParams : RemoveSongFromPlaylist(FALSE, id, songId)
         \/ \E id \in IdParams : DeletePlaylist(FALSE, id))
     => (store' = store /\ isDemoMode' = isDemoMode)]_vars

\* the identifier string s identifies a song that is in the store
IdentifiesSong(s) == ObjectIdIsValid(s) /\ ObjectId(s) \in DOMAIN songs

\* C7: no playlist's songs list contains the same song twice, after any
\* sequence of playlist create, update, add-song and remove-song requests;
\* an add-song for a song that is already in the playlist answers 409 and
\* leaves the list unchanged.
C7_NoSongTwice ==
  /\ \A x \in DOMAIN playlists :
       \A i, j \in 1..Len(playlists[x].songs) :
         i # j => ObjectId(playlists[x].songs[i]) # ObjectId(playlists[x].songs[j])
  /\ \A id \in PathIds, songId \in SongIdParams :
       (/\ Identifies(id, ObjectId(id)) /\ ObjectId(id) \in DOMAIN playlists
        /\ IdentifiesSong(songId)
        /\ \E i \in 1..Len(playlists[ObjectId(id)].songs) :
             Identifies(playlists[ObjectId(id)].songs[i], ObjectId(songId)))
       => LET r == AddSongToPlaylistResult(TRUE, id, songId)
          IN r.status = 409 /\ Untouched(r)

\* the songs of a stored list that still exist, in the order of the list
ResolvedInOrder(list) ==
  LET kept == SelectSeq(list, IdentifiesSong)
  IN [i \in 1..Len(kept) |-> ObjectId(kept[i])]

\* C8: GET /playlists/:id/songs on an existing playlist returns exactly the
\* songs whose ids are in the stored songs list and still exist, in the order
\* of the stored list; ids that no longer resolve to a song are skipped.
C8_PlaylistSongsInOrder ==
  \A id \in PathIds :
    (ObjectIdIsValid(id) /\ ObjectId(id) \in DOMAIN playlists)
    => LET r == GetPlaylistSongsResult(id)
       IN r.status = 200 /\ r.body = ResolvedInOrder(playlists[ObjectId(id)].songs)

\* C9: POST /playlists whose songs list contains at least one id that does
\* not identify a stored song answers 400 and inserts no playlist, neither
\* with the full list nor with the existing subset of it.
C9_UnknownSongRejected ==
  \A b \in CatalogPlaylistBodies :
    (/\ b.songs.arr
     /\ \E i \in 1..Len(b.songs.items) : ~IdentifiesSong(b.songs.items[i]))
    => LET r == PostPlaylistResult(TRUE, b)
       IN r.status = 400 /\ Untouched(r)

\* the result is a 400 validation error and nothing is persisted
ValidationError(r) ==
  /\ r.status = 400
  /\ r.error = "Validation failed"
  /\ Untouched(r)

\* C10: on every create and update, a reference field that holds a malformed
\* identifier (album artist_id, song album_id or artist_id, any element of
\* playlist songs) is reported as a 400 validation error, is never accepted
\* or dropped, and nothing is persisted.
C10_MalformedReferenceRejected ==
  /\ \A b \in AlbumBodies :
       b.artist_id = BadId =>
         /\ ValidationError(PostAlbumResult(TRUE, b))
         /\ \A id \in HexIds : ValidationError(PutAlbumResult(TRUE, id, b))
  /\ \A b \in SongBodies :
       (b.album_id = BadId \/ b.artist_id = BadId) =>
         /\ ValidationError(PostSongResult(TRUE, b))
         /\ \A id \in HexIds : ValidationError(PutSongResult(TRUE, id, b))
  /\ \A b \in CatalogPlaylistBodies :
       (b.songs.arr /\ \E i \in 1..Len(b.songs.items) : b.songs.items[i] = BadId) =>
         /\ ValidationError(PostPlaylistResult(TRUE, b))
         /\ \A id \in HexIds : ValidationError(PutPlaylistResult(TRUE, id, b))

\* the result is the 400 reference error with the given text, nothing persisted
ReferenceError(r, error) ==
  /\ r.status = 400
  /\ r.error = error
  /\ Untouched(r)

ArtistUpdateValid(b) ==
  /\ ~validateArtistThrows(prepareArtistUpdate(b))
  /\ validateArtist(prepareArtistUpdate(b)) = <<>>

AlbumUpdateValid(b) == validateAlbum(prepareAlbumUpdate(b)) = <<>>

SongUpdateValid(b) == validateSong(sanitizeSong(b)) = <<>>

PlaylistUpdateValid(b) == validatePlaylist(sanitizePlaylist(b)) = <<>>

\* the parents the body refers to are in the store
AlbumParentsExist(b) == ObjectId(b.artist_id) \in DOMAIN artists

SongParentsExist(b) ==
  /\ ObjectId(b.album_id) \in DOMAIN albums
  /\ ObjectId(b.artist_id) \in DOMAIN artists

PlaylistSongsExist(b) ==
  LET ids == sanitizePlaylist(b).songs
  IN \A i \in 1..Len(ids) : ObjectId(ids[i]) \in DOMAIN songs

\* a malformed id is answered "Invalid ... ID format" whatever the body is
BadIdFirst(r, error) == r.status = 400 /\ r.error = error /\ Untouched(r)

NotFound(r) == r.status = 404 /\ Untouched(r)

Written(doc, data) ==
  /\ DOMAIN data \subseteq DOMAIN doc
  /\ \A f \in DOMAIN data : doc[f] = data[f]

CeilOfQuotient(n, l) ==
  CHOOSE k \in (0 - n)..n :
    IF l > 0 THEN k * l >= n /\ (k - 1) * l < n
    ELSE k * l <= n /\ (k - 1) * l > n

\* the number of items on the pages p, p + 1, ... up to the first page whose
\* hasNext is false; -1 when a page is not answered 200 or no such page
\* comes within MaxPage pages
RECURSIVE ItemsFrom(_, _, _)
ItemsFrom(coll, p, rawLimit) ==
  IF p > MaxPage THEN 0 - 1
  ELSE LET r == ListResult(coll, RawNum(p), rawLimit)
       IN IF r.status # 200 THEN 0 - 1
          ELSE IF ~r.body.hasNext THEN Len(r.body.items)
          ELSE LET rest == ItemsFrom(coll, p + 1, rawLimit)
               IN IF rest < 0 THEN 0 - 1 ELSE Len(r.body.items) + rest

\* the pagination of the list of coll for the limit l of the request
PaginationRight(coll, l) ==
  LET n == Cardinality(DOMAIN coll)
  IN /\ \A p \in 1..MaxPage :
          LET r == ListResult(coll, RawNum(p), RawNum(l))
          IN /\ r.status = 200
             /\ r.body.totalPages = CeilOfQuotient(n, l)
             /\ r.body.hasNext = (p * l < n)
             /\ r.body.hasPrev = (p > 1)
     /\ ItemsFrom(coll, 1, RawNum(l)) = n

\* the limits the list handlers accept: every number that is not above 100
AcceptedLimits == {x.v : x \in {y \in ListLimits : y.t = "num" /\ y.v <= MaxLimit}}

\* C13: for a list request with page p and limit L on a collection of N
\* documents, for every N and every accepted L: totalPages = ceil(N / L),
\* hasNext = (p * L < N), hasPrev = (p > 1), and the item counts of pages
\* 1, 2, ... up to the first page whose hasNext is false sum to N.
C13_Pagination ==
  \A l \in AcceptedLimits :
    /\ PaginationRight(artists, l)
    /\ PaginationRight(albums, l)
    /\ PaginationRight(songs, l)
    /\ PaginationRight(playlists, l)

\* the number of items a page of l items holds when n items exist
ItemsOnPage(n, p, l) ==
  IF n - (p - 1) * l <= 0 THEN 0
  ELSE IF n - (p - 1) * l < l THEN n - (p - 1) * l
  ELSE l

\* the list of coll refuses every limit above 100 and uses every limit from
\* 1 to 100 as given
LimitRule(coll) ==
  \A rawLimit \in ListLimits, p \in 1..MaxPage :
    LET r == ListResult(coll, RawNum(p), rawLimit)
        l == rawLimit.v
    IN rawLimit.t = "num" =>
         /\ l > MaxLimit => (r.status = 400 /\ r.error = "Invalid limit")
         /\ (1 <= l /\ l <= MaxLimit) =>
              /\ r.status = 200
              /\ Len(r.body.items) = ItemsOnPage(Cardinality(DOMAIN coll), p, l)
              /\ r.body.totalPages = CeilOfQuotient(Cardinality(DOMAIN coll), l)

DeleteAgain(x) ==
  IF x.coll = "artists" THEN DeleteArtistResult(TRUE, x.id)
  ELSE IF x.coll = "albums" THEN DeleteAlbumResult(TRUE, x.id)
  ELSE IF x.coll = "songs" THEN DeleteSongResult(TRUE, x.id)
  ELSE DeletePlaylistResult(TRUE, x.id)

\* C15: for each of the four collections, once DELETE /{collection}/:id has
\* removed a document, every further identical DELETE answers 404 and
\* changes no collection.
C15_DeleteTwice ==
  \A x \in removed : NotFound(DeleteAgain(x))

\* an artist and an album have been removed by DELETE, other requests were
\* handled since (a document was inserted after the removals), and the same
\* DELETE requests are answered 404
C15_RemovedBoth ==
  /\ \E x, y \in removed : x.coll = "artists" /\ y.coll = "albums"
  /\ \E z \in DOMAIN artists :
       \A x \in removed : ObjectId(x.id) < z
  /\ \A x \in removed : DeleteAgain(x).status = 404

\* the playlist id and the song id are well formed and the playlist exists
RemovableFrom(id, songId) ==
  /\ ObjectIdIsValid(id)
  /\ ObjectIdIsValid(songId)
  /\ ObjectId(id) \in DOMAIN playlists

\* no entry of the list is the song that songId identifies
SongNotIn(list, songId) ==
  \A i \in 1..Len(list) : ObjectId(list[i]) # ObjectId(songId)

\* C16: DELETE /playlists/:id/songs/:songId on an existing playlist answers
\* 200; when the song is not in the playlist the songs list keeps its content
\* and order; and the same request sent again after it has been handled
\* answers 200 and leaves the songs list as the first one left it.
C16_RemoveSongIdempotent ==
  /\ [](\A id \in PathIds, songId \in SongIdParams :
          RemovableFrom(id, songId) =>
            /\ RemoveSongFromPlaylistResult(TRUE, id, songId).status = 200
            /\ SongNotIn(playlists[ObjectId(id)].songs, songId) =>
                 Untouched(RemoveSongFromPlaylistResult(TRUE, id, songId)))
  /\ [][\A id \in PathIds, songId \in SongIdParams :
          (RemovableFrom(id, songId) /\ RemoveSongFromPlaylist(TRUE, id, songId)) =>
            /\ RemoveSongFromPlaylistResult(TRUE, id, songId)'.status = 200
            /\ RemoveSongFromPlaylistResult(TRUE, id, songId)'.playlists = playlists']_vars

\* a playlist of two songs from which the first song can be removed, and the
\* same request for a song the playlist does not hold
C16_RemoveFromTwo ==
  \E id \in PathIds, songId, other \in SongIdParams :
    /\ RemovableFrom(id, songId)
    /\ ObjectIdIsValid(other)
    /\ Len(playlists[ObjectId(id)].songs) = 2
    /\ playlists[ObjectId(id)].songs[1] = songId
    /\ RemoveSongFromPlaylistResult(TRUE, id, songId).playlists[ObjectId(id)].songs
         = Tail(playlists[ObjectId(id)].songs)
    /\ SongNotIn(playlists[ObjectId(id)].songs, other)
    /\ RemoveSongFromPlaylistResult(TRUE, id, other).status = 200

\* a required text field of at most max characters is not satisfied by v
TextRuleBroken(v, max) ==
  Falsy(v) \/ Len(trim(v)) = 0 \/ Len(trim(v)) > max

\* the fields of an artist record whose rule the record breaks
ArtistFieldsBroken(d) ==
  {f \in {"name", "genre", "country", "formed_year", "members"} :
     \/ f = "name" /\ TextRuleBroken(d.name, 100)
     \/ f = "genre" /\ TextRuleBroken(d.genre, 50)
     \/ f = "country" /\ TextRuleBroken(d.country, 50)
     \/ f = "formed_year" /\ (\/ isNaN(d.formed_year)
                              \/ LessThan(d.formed_year, 1900)
                              \/ GreaterThan(d.formed_year, CurrentYear))
     \/ f = "members" /\ (\/ ~d.members.arr
                          \/ Len(d.members.items) = 0
                          \/ \E i \in 1..Len(d.members.items) :
                               TextRuleBroken(d.members.items[i], 100))}

\* the message names the field
ArtistMessageOf(f, msg) ==
  \/ f = "name" /\ msg \in {"Artist name is required and must be a non-empty string",
                            "Artist name must be less than 100 characters"}
  \/ f = "genre" /\ msg \in {"Genre is required and must be a non-empty string",
                             "Genre must be less than 50 characters"}
  \/ f = "country" /\ msg \in {"Country is required and must be a non-empty string",
                               "Country must be less than 50 characters"}
  \/ f = "formed_year" /\ msg = "Valid formed year is required"
  \/ f = "members" /\ msg \in
       {"At least one member is required", "Duplicate member names are not allowed"}
       \cup {"Member " \o ToString(i) \o " must be a non-empty string" : i \in 1..2}
       \cup {"Member " \o ToString(i) \o " name must be less than 100 characters" : i \in 1..2}

\* the answer is 400 'Validation failed' with a message for every field of fields
ReportsAll(r, fields) ==
  /\ ValidationError(r)
  /\ \A f \in fields : \E i \in 1..Len(r.details) : ArtistMessageOf(f, r.details[i])

\* C17: a POST /artists or PUT /artists/:id whose record breaks field rules
\* answers 400 'Validation failed' with a message for every field whose rule
\* is broken.
C17_AllViolationsReported ==
  \A b \in ArtistBodies :
    /\ ArtistFieldsBroken(sanitizeArtist(b)) # {} =>
         ReportsAll(PostArtistResult(TRUE, b), ArtistFieldsBroken(sanitizeArtist(b)))
    /\ \A id \in PathIds :
         (ObjectIdIsValid(id) /\ ArtistFieldsBroken(prepareArtistUpdate(b)) # {}) =>
           ReportsAll(PutArtistResult(TRUE, id, b),
                      ArtistFieldsBroken(prepareArtistUpdate(b)))

\* C18: a write whose numeric field (artist formed_year, album track_count
\* or duration, song duration or track_number) holds a value that is no
\* number answers 400 'Validation failed'.
C18_NotANumberRejected ==
  /\ \A b \in FieldArtistBodies :
       b.formed_year = RawText =>
         /\ ValidationError(PostArtistResult(TRUE, b))
         /\ ValidationError(PutArtistResult(TRUE, ObjectIdToString(CatalogArtist), b))
  /\ \A b \in FieldAlbumBodies :
       (b.track_count = RawText \/ b.duration = RawText) =>
         /\ ValidationError(PostAlbumResult(TRUE, b))
         /\ ValidationError(PutAlbumResult(TRUE, ObjectIdToString(CatalogAlbum), b))
  /\ \A b \in FieldSongBodies :
       (b.duration = RawText \/ b.track_number = RawText) =>
         /\ ValidationError(PostSongResult(TRUE, b))
         /\ ValidationError(PutSongResult(TRUE, ObjectIdToString(FirstCatalogSong), b))

\* the raw value is a number from lo to hi
InRange(raw, lo, hi) == raw.t = "num" /\ lo <= raw.v /\ raw.v <= hi

\* C19: with every other field valid, POST /albums passes validation exactly
\* when track_count is in 1..200 and duration in 1..600, and POST /songs
\* exactly when duration is in 1..3600 and track_number is absent or in
\* 1..200.
C19_NumericRanges ==
  /\ \A b \in FieldAlbumBodies :
       ~ValidationError(PostAlbumResult(TRUE, b))
         <=> (InRange(b.track_count, 1, 200) /\ InRange(b.duration, 1, 600))
  /\ \A b \in FieldSongBodies :
       ~ValidationError(PostSongResult(TRUE, b))
         <=> /\ InRange(b.duration, 1, 3600)
             /\ b.track_number = RawAbsent \/ InRange(b.track_number, 1, 200)

\* the answer is 200 with an empty array
EmptyArray(r) == r.status = 200 /\ r.body = <<>> /\ Untouched(r)

\* C20: GET /albums/artist/:artistId, GET /songs/album/:albumId and
\* GET /songs/artist/:artistId never answer 404, and answer 200 with an empty
\* array for a well-formed id of a parent that is not in the store;
\* GET /playlists/:id/songs answers 404 for a well-formed id of a playlist
\* that is not in the store.
C20_RelationReads ==
  \A id \in IdParams :
    /\ GetAlbumsByArtistResult(id).status # 404
    /\ GetSongsByAlbumResult(id).status # 404
    /\ GetSongsByArtistResult(id).status # 404
    /\ ObjectIdIsValid(id) =>
         /\ ObjectId(id) \notin DOMAIN artists =>
              /\ EmptyArray(GetAlbumsByArtistResult(id))
              /\ EmptyArray(GetSongsByArtistResult(id))
         /\ ObjectId(id) \notin DOMAIN albums =>
              EmptyArray(GetSongsByAlbumResult(id))
         /\ ObjectId(id) \notin DOMAIN playlists =>
              NotFound(GetPlaylistSongsResult(id))

\* C21: the server listens only when the store handle is set; when initDb
\* reports an error the process exits and never listens afterwards; and no
\* handler has run while the handle is unset.
C21_ListenAfterInit ==
  /\ [](phase = "listening" => _db)
  /\ [](handled > 0 => _db)
  /\ [](phase = "exited" => ~_db /\ handled = 0)
  /\ [][ConnectFails => phase' = "exited"]_vars
  /\ [][phase = "exited" => phase' = "exited"]_vars

\* the server listens and has served requests that stored an artist
C21_Serving ==
  /\ phase = "listening"
  /\ handled = MaxHandled
  /\ DOMAIN artists # {}

\* the answers of the service to the requests of the model
Answers ==
  {SeedResult(user) : user \in BOOLEAN}
  \cup {PostArtistResult(TRUE, b) : b \in ArtistBodies}
  \cup {PutArtistResult(TRUE, id, b) : id \in PathIds, b \in ArtistBodies}
  \cup {DeleteArtistResult(TRUE, id) : id \in IdParams}
  \cup {PostAlbumResult(TRUE, b) : b \in AlbumBodies}
  \cup {PutAlbumResult(TRUE, id, b) : id \in PathIds, b \in AlbumBodies}
  \cup {DeleteAlbumResult(TRUE, id) : id \in PathIds}
  \cup {PostSongResult(TRUE, b) : b \in SongBodies}
  \cup {PutSongResult(TRUE, id, b) : id \in PathIds, b \in SongBodies}
  \cup {DeleteSongResult(TRUE, id) : id \in PathIds}
  \cup {PostPlaylistResult(TRUE, b) : b \in PlaylistBodies}
  \cup {PutPlaylistResult(TRUE, id, b) : id \in PathIds, b \in PlaylistBodies}
  \cup {DeletePlaylistResult(TRUE, id) : id \in PathIds}
  \cup {GetArtistsResult(p, l) : p \in ListPages, l \in ListLimits}
  \cup {GetAlbumsResult(p, l) : p \in ListPages, l \in ListLimits}
  \cup {GetSongsResult(p, l) : p \in ListPages, l \in ListLimits}
  \cup {GetPlaylistsResult(p, l) : p \in ListPages, l \in ListLimits}

\* the response carries nothing of the caught error
NoErrorDetail(r) == r.details = <<>> /\ r.message = ""

\* C22: unless NODE_ENV is 'development', no 500 response carries the
\* message of the underlying error.
C22_NoDetailByDefault ==
  NODE_ENV # "development" =>
    \A r \in Answers : r.status = 500 => NoErrorDetail(r)

CreatableArtist(b) ==
  /\ validateArtist(sanitizeArtist(b)) = <<>>
  /\ RegexCompiles(sanitizeArtist(b).name)
  /\ ~artistNameTaken(sanitizeArtist(b).name)

C24_BearerTokenAccepted ==
  \A b \in ArtistBodies :
    CreatableArtist(b) =>
      /\ PostArtistResult(reqUser(FALSE, TRUE), b).status = 201
      /\ DOMAIN PostArtistResult(reqUser(FALSE, TRUE), b).artists # DOMAIN artists

\* the requests in flight of the given kind
InFlight(kind) == {p \in DOMAIN reqs : reqs[p].kind = kind}

AllDone == \A p \in DOMAIN reqs : reqs[p].pc = "done"

\* C25: two concurrent POST /artists with the same name can both pass the
\* duplicate pre-check, both insert and both answer 201.  What makes it
\* possible: a request that has passed the pre-check inserts its artist
\* whatever the collection holds by then, and answers 201 unless a store
\* operation rejects; 409 is answered by the pre-check alone.
C25_InsertAfterPreCheck ==
  /\ [](\A p \in InFlight("POST /artists") :
          /\ reqs[p].pc = "findOne" =>
               /\ reqs[p].inserted \in DOMAIN artists
               /\ artists[reqs[p].inserted].name = reqs[p].data.name
          /\ reqs[p].pc = "done" => reqs[p].status \in {201, 409, 500}
          /\ reqs[p].status = 409 => reqs[p].inserted = MissingOid)
  /\ [][\A p \in InFlight("POST /artists") :
          (reqs[p].pc = "insertOne" /\ reqs'[p] # reqs[p]) =>
            \/ reqs'[p].status = 500 /\ artists' = artists
            \/ /\ reqs'[p].pc = "findOne"
               /\ reqs'[p].inserted \notin DOMAIN artists
               /\ reqs'[p].inserted \in DOMAIN artists']_vars

\* both POST /artists requests have answered 201 and the collection holds
\* two artists with the same name
C25_TwoArtistsOneName ==
  /\ InFlight("POST /artists") = DOMAIN reqs
  /\ \A p \in DOMAIN reqs : reqs[p].pc = "done" /\ reqs[p].status = 201
  /\ \E x, y \in DOMAIN artists :
       /\ x # y
       /\ {x, y} = {reqs[p].inserted : p \in DOMAIN reqs}
       /\ artists[x].name = artists[y].name

\* C26: once a DELETE /artists/:id and a concurrent POST /albums or
\* PUT /albums/:id naming that artist have both completed, every stored
\* album's artist_id identifies a stored artist.
C26_NoOrphanAfterRace ==
  (/\ AllDone
   /\ Cardinality(InFlight("DELETE /artists/:id")) = 1
   /\ Cardinality(InFlight("POST /albums") \cup InFlight("PUT /albums/:id")) = 1)
  => \A x \in DOMAIN albums : ObjectId(albums[x].artist_id) \in DOMAIN artists

\* the number of entries of the list equal to songId
Occurrences(list, songId) ==
  Cardinality({i \in 1..Len(list) : list[i] = songId})

\* C27: of the concurrent PUT /playlists/:id/songs/:songId requests for the
\* same playlist and song at most one answers 200, and the song is in the
\* playlist's songs list at most once.
C27_OneAddWins ==
  InFlight("PUT /playlists/:id/songs/:songId") = DOMAIN reqs =>
    /\ Cardinality({p \in DOMAIN reqs : reqs[p].status = 200}) <= 1
    /\ Occurrences(playlists[RacePlaylist].songs, ObjectIdToString(FirstCatalogSong)) <= 1

\* the create requests among the requests in flight
Creates == InFlight("POST /artists") \cup InFlight("POST /albums")

\* C28: a create request that answered an error status (400, 401, 409 or
\* 500) has inserted no document.
C28_ErrorMeansNothingInserted ==
  \A p \in Creates :
    reqs[p].status \in {400, 401, 409, 500} => reqs[p].inserted = MissingOid

\* r changed nothing but the document x of the collection, whose _id (its
\* place in the collection) and createdAt it kept and whose every other field
\* it wrote from data
UpdatedOnly(coll, after, x, data) ==
  /\ x \in DOMAIN coll
  /\ DOMAIN after = DOMAIN coll
  /\ \A y \in DOMAIN coll \ {x} : after[y] = coll[y]
  /\ DOMAIN after[x] = DOMAIN coll[x]
  /\ after[x].createdAt = coll[x].createdAt
  /\ Written(after[x], data)
  /\ DOMAIN after[x] \ DOMAIN data = {"createdAt"}

\* the optional fields the body omits are fields of the document with the
\* empty default
ResetWhereOmitted(doc, b, optional, omitted, default) ==
  \A f \in optional : b[f] = omitted => doc[f] = default

\* bodies that give the optional text fields of an artist
FullArtistBodies ==
  ArtistBodies \cup {[ArtistBody(n) EXCEPT !.biography = X, !.social_media = "object"] :
                       n \in Names}

\* C29: a PUT /{collection}/:id that answers 204 changes only the document
\* with that id, keeps its _id and createdAt, writes every other field from
\* the request, and resets the optional fields the body omits to their
\* empty defaults.
C29_UpdateFrame ==
  /\ \A id \in IdParams, b \in FullArtistBodies :
       LET r == PutArtistResult(TRUE, id, b)
       IN r.status = 204 =>
            /\ UpdatedOnly(artists, r.artists, ObjectId(id), prepareArtistUpdate(b))
            /\ r.albums = albums /\ r.songs = songs /\ r.playlists = playlists
            /\ ResetWhereOmitted(r.artists[ObjectId(id)], b,
                                 {"biography", "website"}, UNDEF, <<>>)
            /\ ResetWhereOmitted(r.artists[ObjectId(id)], b,
                                 {"social_media"}, "undefined", "{}")
  /\ \A id \in IdParams, b \in AlbumBodies :
       LET r == PutAlbumResult(TRUE, id, b)
       IN r.status = 204 =>
            /\ UpdatedOnly(albums, r.albums, ObjectId(id), prepareAlbumUpdate(b))
            /\ r.artists = artists /\ r.songs = songs /\ r.playlists = playlists
            /\ ResetWhereOmitted(r.albums[ObjectId(id)], b,
                                 {"record_label", "cover_image_url"}, UNDEF, <<>>)
  /\ \A id \in IdParams, b \in SongBodies :
       LET r == PutSongResult(TRUE, id, b)
       IN r.status = 204 =>
            /\ UpdatedOnly(songs, r.songs, ObjectId(id), sanitizeSong(b))
            /\ r.artists = artists /\ r.albums = albums /\ r.playlists = playlists
            /\ ResetWhereOmitted(r.songs[ObjectId(id)], b,
                                 {"lyrics", "audio_url"}, UNDEF, <<>>)
            /\ ResetWhereOmitted(r.songs[ObjectId(id)], b,
                                 {"featured_artists"}, NotAnArray, <<>>)
  /\ \A id \in IdParams, b \in PlaylistBodies :
       LET r == PutPlaylistResult(TRUE, id, b)
       IN r.status = 204 =>
            /\ UpdatedOnly(playlists, r.playlists, ObjectId(id), sanitizePlaylist(b))
            /\ r.artists = artists /\ r.albums = albums /\ r.songs = songs
            /\ ResetWhereOmitted(r.playlists[ObjectId(id)], b,
                                 {"description", "cover_image_url"}, UNDEF, <<>>)
            /\ ResetWhereOmitted(r.playlists[ObjectId(id)], b,
                                 {"tags"}, NotAnArray, <<>>)

\* two artists are stored, one with a biography and a social_media object;
\* a PUT of that one with a body that omits both answers 204, empties them,
\* keeps the createdAt and leaves the other artist as it is
C29_BiographyReset ==
  \E x, y \in DOMAIN artists :
    LET r == PutArtistResult(TRUE, ObjectIdToString(x), ArtistBody(a))
    IN /\ x # y
       /\ artists[x].biography # <<>>
       /\ artists[x].social_media = "object"
       /\ r.status = 204
       /\ r.artists[x].biography = <<>>
       /\ r.artists[x].social_media = "{}"
       /\ r.artists[x].createdAt = artists[x].createdAt
       /\ r.artists[y] = artists[y]

\* C30: a PUT /playlists/:id/songs/:songId that answers 200 has put the
\* song id at the end of that playlist's songs list, with the ids that were
\* there before it in the order they had, and has changed no other field of
\* the playlist, no other playlist and no song.
C30_AddSongFrame ==
  \A id \in IdParams, songId \in SongIdParams :
    LET r == AddSongToPlaylistResult(TRUE, id, songId)
        x == ObjectId(id)
    IN r.status = 200 =>
         /\ x \in DOMAIN playlists
         /\ ObjectId(songId) \in DOMAIN songs
         /\ Len(r.playlists[x].songs) = Len(playlists[x].songs) + 1
         /\ r.playlists[x].songs[Len(r.playlists[x].songs)] = songId
         /\ SubSeq(r.playlists[x].songs, 1, Len(playlists[x].songs)) = playlists[x].songs
         /\ [r.playlists[x] EXCEPT !.songs = playlists[x].songs] = playlists[x]
         /\ DOMAIN r.playlists = DOMAIN playlists
         /\ \A y \in DOMAIN playlists \ {x} : r.playlists[y] = playlists[y]
         /\ r.songs = songs /\ r.artists = artists /\ r.albums = albums

\* two playlists are stored, one of them holds a song, and adding another
\* song to it answers 200 and puts the new id after the one it held
C30_AddedToNonEmpty ==
  \E x, y \in DOMAIN playlists, songId \in SongIdParams :
    LET r == AddSongToPlaylistResult(TRUE, ObjectIdToString(x), songId)
    IN /\ x # y
       /\ Len(playlists[x].songs) >= 1
       /\ r.status = 200
       /\ r.playlists[x].songs = Append(playlists[x].songs, songId)
       /\ r.playlists[y] = playlists[y]

=============================================================================
